---- MODULE Spec2Model ----
(***************************************************************************)
(* FullFrame thumbnail pipeline: the two-tier LRU ThumbnailCache and the   *)
(* ThumbnailLoadThread scheduler with its QThreadPool workers.             *)
(*                                                                         *)
(* Strings are sequences of one-character strings, so that the cache key   *)
(* "%1@%2" and QString::startsWith are computed, not assumed.              *)
(***************************************************************************)
EXTENDS Integers, Sequences, FiniteSets, TLC

VARIABLES
    imageCache,     \* m_imageCache : key -> QImage (the hash's key set is its DOMAIN)
    imageLRU,       \* m_imageLRU   : std::list<QString>, front = most recently used
    maxImages,      \* m_maxImages
    pixmapCache,    \* m_pixmapCache
    pixmapLRU,      \* m_pixmapLRU
    maxPixmaps,     \* m_maxPixmaps
    cfgPc,          \* position of the thread inside setImageCacheSize /
                    \* setPixmapCacheSize / clearAll, between two lock sections
    pendingKeys,    \* m_pendingKeys
    tasks,          \* the ThumbnailWorker objects alive: id -> task record
    poolQueue,      \* QThreadPool's queue of runnables not yet started (ids)
    events,         \* queued finished() signals not yet delivered (ids, FIFO)
    maxThreadCount, \* QThreadPool::maxThreadCount
    imageTouch,     \* history: keys resident in the image tier, oldest touch first
    pixmapTouch,    \* history: keys resident in the pixmap tier, oldest touch first
    attempted,      \* history, per key: "yes" when a task was submitted since the key
                    \* was last put into the image tier, "void" once a cancel hit it
    lastOp,         \* history: the operation that made the last step
    struck,         \* history: the queued tasks whose path a cancel has named
    keyed,          \* two requests and the cache keys made for them
    m_pendingThumbnails, \* ImageThumbnailModel: the paths data() has requested
    thumbnailLoaded, \* ImageThumbnailModel: the paths whose item holds its pixmap
    invalidated,    \* history: the keys refreshThumbnail has removed from both tiers
                    \* and no load was made for since
    reader,         \* a caller of retrieveImage: the pointer it was handed, the
                    \* entry stored at that time, and what it read through it
    source,         \* the media file create is called for: path, content, mtime
    diskRecords,    \* the file's records in the disk cache, per size directory
    now,            \* file-system time
    ffmpegPath,     \* the static path cached by findFFmpegPath
    created,        \* what the last create call did and returned
    imageExts,      \* getMediaType's static set of image extensions
    videoExts,      \* getMediaType's static set of video extensions
    audioExts,      \* getMediaType's static set of audio extensions
    calls,          \* per thread: its getMediaType call and where it stands
    phase           \* where main() stands: the event loop or a step of the teardown

cacheVars == <<imageCache, imageLRU, maxImages, pixmapCache, pixmapLRU, maxPixmaps, cfgPc>>
schedVars == <<pendingKeys, tasks, poolQueue, events, maxThreadCount>>
histVars  == <<imageTouch, pixmapTouch, attempted, lastOp, struck>>
staticVars == <<imageExts, videoExts, audioExts, calls>>
processVars == <<staticVars, phase>>
creatorVars == <<source, diskRecords, now, ffmpegPath, created, processVars>>
consumerVars == <<m_pendingThumbnails, thumbnailLoaded>>
auxVars   == <<keyed, invalidated, consumerVars>>
vars      == <<cacheVars, schedVars, histVars, creatorVars, reader, auxVars>>

-----------------------------------------------------------------------------
(* Bounds of the model and constants of the program *)

MaxCapacity == 2          \* largest argument given to set*CacheSize
MaxTasks == 2             \* worker objects alive at once
PriorityTasks == 3        \* the same, where the order of the pool's queue is examined

DefaultMaxImages == 1000
DefaultMaxPixmaps == 500
MinThreads == 2           \* qMax(2, idealThreadCount - 1)
DefaultSize == 256        \* the size load is called with by default

Null == "null"
NoKey == <<>>

\* no worker object under this id
NoTask == [filePath |-> NoKey, size |-> 0, cacheKey |-> NoKey, state |-> "free", image |-> Null]

Paths == { <<"a">>, <<"a", "@", "1">> }
Sizes == {1}
Priorities == {"Low", "Normal", "High"}
Images == {"img1", "img2"}

-----------------------------------------------------------------------------
(* Strings *)

Digit(d) == CASE d = 0 -> "0" [] d = 1 -> "1" [] d = 2 -> "2" [] d = 3 -> "3"
              [] d = 4 -> "4" [] d = 5 -> "5" [] d = 6 -> "6" [] d = 7 -> "7"
              [] d = 8 -> "8" [] d = 9 -> "9"

RECURSIVE NatToStr(_)
NatToStr(n) == IF n < 10 THEN <<Digit(n)>>
               ELSE NatToStr(n \div 10) \o <<Digit(n % 10)>>

\* QString::arg(int)
IntToStr(n) == IF n < 0 THEN <<"-">> \o NatToStr(-n) ELSE NatToStr(n)

\* QChar::digitValue, -1 for a character that is no digit
DigitValue(c) ==
    CASE c = "0" -> 0 [] c = "1" -> 1 [] c = "2" -> 2 [] c = "3" -> 3 [] c = "4" -> 4
      [] c = "5" -> 5 [] c = "6" -> 6 [] c = "7" -> 7 [] c = "8" -> 8 [] c = "9" -> 9
      [] OTHER -> -1

IsDigitAt(s, i) == i <= Len(s) /\ DigitValue(s[i]) >= 0

\* QString::arg's place markers: '%' followed by one or two digits
IsMarkerAt(s, i) == s[i] = "%" /\ IsDigitAt(s, i + 1)
MarkerLen(s, i) == IF IsDigitAt(s, i + 2) THEN 3 ELSE 2
MarkerNum(s, i) ==
    IF IsDigitAt(s, i + 2)
    THEN 10 * DigitValue(s[i + 1]) + DigitValue(s[i + 2])
    ELSE DigitValue(s[i + 1])

\* the markers of s, found from left to right: position -> number
RECURSIVE MarkersFrom(_, _)
MarkersFrom(s, i) ==
    IF i > Len(s) THEN {}
    ELSE IF IsMarkerAt(s, i)
         THEN {<<i, MarkerNum(s, i)>>} \cup MarkersFrom(s, i + MarkerLen(s, i))
    ELSE MarkersFrom(s, i + 1)

\* s from position i on, with the markers at the positions in `at` replaced by a
RECURSIVE ReplaceFrom(_, _, _, _)
ReplaceFrom(s, i, at, a) ==
    IF i > Len(s) THEN <<>>
    ELSE IF i \in at THEN a \o ReplaceFrom(s, i + MarkerLen(s, i), at, a)
    ELSE <<s[i]>> \o ReplaceFrom(s, i + 1, at, a)

\* QString::arg(a): every occurrence of the lowest-numbered marker is replaced
\* by a; a string without markers is returned as it is
Arg(s, a) ==
    LET ms == MarkersFrom(s, 1) IN
    IF ms = {} THEN s
    ELSE LET lowest == CHOOSE n \in { m[2] : m \in ms } : \A m \in ms : n <= m[2]
         IN ReplaceFrom(s, 1, { m[1] : m \in { x \in ms : x[2] = lowest } }, a)

\* QString("%1@%2").arg(path).arg(size)
KeyFormat(path, size) == Arg(Arg(<<"%", "1", "@", "%", "2">>, path), IntToStr(size))

\* the keys of the requests the scheduler is exercised with, computed once
RequestKeys == [p \in Paths, s \in Sizes \cup {DefaultSize} |-> KeyFormat(p, s)]

\* ThumbnailInfo::makeCacheKey
makeCacheKey(path, size) ==
    IF <<path, size>> \in DOMAIN RequestKeys THEN RequestKeys[path, size]
    ELSE KeyFormat(path, size)

\* no key made yet
NoKeyed == [path |-> <<<<>>, <<>>>>, size |-> <<0, 0>>, key |-> <<NoKey, NoKey>>]

\* QString::startsWith
startsWith(s, prefix) ==
    /\ Len(prefix) <= Len(s)
    /\ SubSeq(s, 1, Len(prefix)) = prefix

AllKeys == { makeCacheKey(p, s) : p \in Paths, s \in Sizes }

\* the key of one file requested at the default size
PhotoPath == <<"a">>
PhotoKey == makeCacheKey(PhotoPath, DefaultSize)

\* keys the submission history is kept for
HistoryKeys == AllKeys \cup {PhotoKey}

\* keys the cache operations are exercised with on their own
TierKeys == { makeCacheKey(<<"a">>, 1), makeCacheKey(<<"a">>, 2),
              makeCacheKey(<<"b">>, 1) }

\* QPixmap::fromImage
fromImage(img) == [pixmapOf |-> img]

\* pixmaps the display tier is exercised with on its own
Pixmaps == { fromImage("img1") }

-----------------------------------------------------------------------------
(* The LRU tier: std::list + QHash *)

EmptyCache == [x \in {} |-> Null]

Keys(cache) == DOMAIN cache

\* std::list::erase of the node a map entry points to
LruErase(lru, k) ==
    IF \E i \in 1..Len(lru) : lru[i] = k
    THEN LET i == CHOOSE j \in 1..Len(lru) :
                      lru[j] = k /\ \A h \in 1..(j - 1) : lru[h] # k
         IN SubSeq(lru, 1, i - 1) \o SubSeq(lru, i + 1, Len(lru))
    ELSE lru

\* std::list::push_front
PushFront(lru, k) == <<k>> \o lru

\* erase + push_front + iterator update
MoveToFront(lru, k) == PushFront(LruErase(lru, k), k)

\* QHash::insert / assignment through the iterator
HashInsert(cache, k, v) ==
    [x \in Keys(cache) \cup {k} |-> IF x = k THEN v ELSE cache[x]]

\* QHash::remove / QHash::erase
HashRemove(cache, k) == [x \in Keys(cache) \ {k} |-> cache[x]]

EvictLoop_OffByOne(cache, lru, max) ==
    LET keep == IF max - 1 < 0 THEN 0 ELSE max - 1 IN
    IF Cardinality(Keys(cache)) >= max /\ lru # <<>>
    THEN [cache |-> [x \in { lru[i] : i \in 1..keep } \cap Keys(cache) |-> cache[x]],
          lru   |-> SubSeq(lru, 1, keep)]
    ELSE [cache |-> cache, lru |-> lru]

\* while (size > max && !lru.empty()) { key = lru.back(); lru.pop_back(); cache.remove(key); }
RECURSIVE EvictLoop(_, _, _)
EvictLoop(cache, lru, max) ==
    IF Cardinality(Keys(cache)) > max /\ lru # <<>>
    THEN EvictLoop(HashRemove(cache, lru[Len(lru)]), SubSeq(lru, 1, Len(lru) - 1), max)
    ELSE [cache |-> cache, lru |-> lru]

\* a put that runs the eviction loop for a resident key as well
TierPut_EvictsOnReplace(cache, lru, max, k, v) ==
    EvictLoop(HashInsert(cache, k, v), MoveToFront(lru, k), max)

\* putImage / putPixmap under the tier's lock
TierPut(cache, lru, max, k, v) ==
    IF k \in Keys(cache)
    THEN [cache |-> HashInsert(cache, k, v), lru |-> MoveToFront(lru, k)]
    ELSE EvictLoop(HashInsert(cache, k, v), PushFront(lru, k), max)

TierRetrieve_NoMove(cache, lru, k) == lru

\* retrieveImage / retrievePixmap under the tier's lock: the list after the call
TierRetrieve(cache, lru, k) ==
    IF k \in Keys(cache) THEN MoveToFront(lru, k) ELSE lru

TierRemove_KeepsNode(cache, lru, k) ==
    IF k \in Keys(cache)
    THEN [cache |-> HashRemove(cache, k), lru |-> lru]
    ELSE [cache |-> cache, lru |-> lru]

\* removeImage / removePixmap under the tier's lock
TierRemove(cache, lru, k) ==
    IF k \in Keys(cache)
    THEN [cache |-> HashRemove(cache, k), lru |-> LruErase(lru, k)]
    ELSE [cache |-> cache, lru |-> lru]

\* hasImage / hasPixmap
TierHas(cache, k) == k \in Keys(cache)

\* the entry retrieveImage / retrievePixmap returns: the stored value, or
\* nullptr for a key that is not resident
Lookup(cache, k) == IF k \in Keys(cache) THEN cache[k] ELSE Null

-----------------------------------------------------------------------------
(* History *)

Min(a, b) == IF a < b THEN a ELSE b

SeqSet(s) == { s[i] : i \in 1..Len(s) }

Restrict(order, S) == SelectSeq(order, LAMBDA x : x \in S)

\* k becomes the most recently touched key
Touch(order, k) == Append(SelectSeq(order, LAMBDA x : x # k), k)

Pos(order, k) == CHOOSE i \in 1..Len(order) : order[i] = k

Op(name, k, gone, id, sigs) ==
    [op |-> name, key |-> k, evicted |-> gone, task |-> id, emitted |-> sigs]

NoOp == Op("init", NoKey, {}, 0, <<>>)

\* a put: the operation, the key, the keys evicted and the value handed in
PutOp(name, k, gone, v) ==
    [op |-> name, key |-> k, evicted |-> gone, task |-> 0, emitted |-> <<>>, value |-> v]

\* no caller holds a pointer returned by retrieveImage
NoReader == [phase |-> "idle", key |-> NoKey, stored |-> Null, ref |-> "none", seen |-> Null]

\* what a pointer into m_imageCache handed out by retrieveImage refers to once
\* the hash takes the value `after`: nothing any more when its node was
\* erased; the same node or nothing when another key was inserted or erased
\* (QHash may move its nodes); the same node otherwise
ReaderAfter(after) ==
    IF reader.ref # "valid" THEN {reader}
    ELSE IF reader.key \notin Keys(after) THEN {[reader EXCEPT !.ref = "dangling"]}
    ELSE IF Keys(after) # Keys(imageCache) THEN {reader, [reader EXCEPT !.ref = "dangling"]}
    ELSE {reader}

\* the image tier takes the value r; `order` is the touch history before eviction
SetImageTier(r, order) ==
    /\ imageCache' = r.cache
    /\ imageLRU' = r.lru
    /\ imageTouch' = Restrict(order, Keys(r.cache))
    /\ reader' \in ReaderAfter(r.cache)

SetPixmapTier(r, order) ==
    /\ pixmapCache' = r.cache
    /\ pixmapLRU' = r.lru
    /\ pixmapTouch' = Restrict(order, Keys(r.cache))

Gone(before, after) == Keys(before) \ Keys(after)

-----------------------------------------------------------------------------
(* ThumbnailCreator: paths, media types and image sizes *)

MaxClock == 1             \* file-system time runs from 0 to MaxClock
MediaThreads == 2         \* threads that call getMediaType at once
NormalBucketMax == 128    \* sizes up to this one share the "normal" directory

\* a null QImage, and an image with pixels
NullImage == [kind |-> "null", w |-> 0, h |-> 0, label |-> <<>>]
Picture(kind, w, h, label) == [kind |-> kind, w |-> w, h |-> h, label |-> label]

\* QImage::isNull
isNull(img) == img.kind = "null"

Max(a, b) == IF a > b THEN a ELSE b

\* QChar::toLower / toUpper on the letters the paths of the model use
LowerChar(c) ==
    CASE c = "A" -> "a" [] c = "G" -> "g" [] c = "J" -> "j" [] c = "M" -> "m"
      [] c = "N" -> "n" [] c = "P" -> "p" [] c = "S" -> "s" [] c = "T" -> "t"
      [] c = "X" -> "x" [] OTHER -> c

UpperChar(c) ==
    CASE c = "a" -> "A" [] c = "g" -> "G" [] c = "j" -> "J" [] c = "m" -> "M"
      [] c = "n" -> "N" [] c = "p" -> "P" [] c = "s" -> "S" [] c = "t" -> "T"
      [] c = "x" -> "X" [] OTHER -> c

toLower(s) == [i \in 1..Len(s) |-> LowerChar(s[i])]
toUpper(s) == [i \in 1..Len(s) |-> UpperChar(s[i])]

\* index of the last occurrence of c in s, 0 when there is none
RECURSIVE LastIndexOf(_, _)
LastIndexOf(s, c) ==
    IF s = <<>> THEN 0
    ELSE IF s[Len(s)] = c THEN Len(s)
    ELSE LastIndexOf(SubSeq(s, 1, Len(s) - 1), c)

\* QFileInfo::fileName and QFileInfo::suffix
fileName(path) == SubSeq(path, LastIndexOf(path, "/") + 1, Len(path))
suffix(path) ==
    LET name == fileName(path)
        dot  == LastIndexOf(name, ".")
    IN IF dot = 0 THEN <<>> ELSE SubSeq(name, dot + 1, Len(name))

\* imageExtensions, videoExtensions, audioExtensions: the entries a path of
\* the model can match
imageExtensions == { <<"j", "p", "g">>, <<"p", "n", "g">> }
videoExtensions == { <<"m", "p", "4">>, <<"t", "s">> }
audioExtensions == { <<"m", "p", "3">> }

\* ThumbnailCreator::getMediaType
getMediaType(path) ==
    LET ext == toLower(suffix(path)) IN
    IF ext \in imageExtensions THEN "Image"
    ELSE IF ext \in videoExtensions THEN "Video"
    ELSE IF ext \in audioExtensions THEN "Audio"
    ELSE "Unknown"

\* the insertions of lines 623-631 in their order: the set and the extension
FillOrder ==
    << [set |-> "image", ext |-> <<"j", "p", "g">>],
       [set |-> "image", ext |-> <<"p", "n", "g">>],
       [set |-> "video", ext |-> <<"m", "p", "4">>],
       [set |-> "video", ext |-> <<"t", "s">>],
       [set |-> "audio", ext |-> <<"m", "p", "3">>] >>

\* the threads that call getMediaType
MediaThreadIds == 1..MediaThreads

\* a thread that is not inside getMediaType
NoCall == [pc |-> "idle", path |-> <<>>, pos |-> 0, result |-> "none"]

\* QSize::scaled(QSize(t, t), Qt::KeepAspectRatio)
QSizeScaled(w, h, t) ==
    IF w = 0 \/ h = 0 THEN <<t, t>>
    ELSE LET rw == (t * w) \div h IN
         IF rw <= t THEN <<rw, t>> ELSE <<t, (t * h) \div w>>

\* QImage::scaled(t, t, Qt::KeepAspectRatio, ...)
scaled(img, t) ==
    IF isNull(img) \/ t <= 0 THEN NullImage
    ELSE LET s == QSizeScaled(img.w, img.h, t) IN
         Picture(img.kind, Max(s[1], 1), Max(s[2], 1), img.label)

\* qRound(num / den) for non-negative values
qRound(num, den) == (2 * num + den) \div (2 * den)

-----------------------------------------------------------------------------
(* ThumbnailCreator: generation paths *)

\* what QImageReader finds in a source file: its pixel size when it decodes,
\* and whether the format's handler supports QImageIOHandler::Size
Content(ok, w, h, sizeOption) ==
    [decodable |-> ok, w |-> w, h |-> h, sizeOption |-> sizeOption]

NoScaledSize == <<>>

\* QImageReader::read, after setScaledSize(scaledSize) when one was set
read(content, scaledSize) ==
    IF ~content.decodable THEN NullImage
    ELSE IF scaledSize = NoScaledSize THEN Picture("image", content.w, content.h, <<>>)
    ELSE Picture("image", scaledSize[1], scaledSize[2], <<>>)

\* loadExifThumbnail, lines 146-169
loadExifThumbnail(content, t) ==
    IF content.sizeOption /\ (content.w > t * 4 \/ content.h > t * 4)
    THEN read(content, <<t, t>>)
    ELSE read(content, NoScaledSize)

\* loadAndScale, lines 171-195: scaleFactor = min(t / w, t / h) = t / max(w, h)
loadAndScale(content, t) ==
    LET big == Max(content.w, content.h) IN
    IF content.sizeOption /\ content.decodable /\ t < big
    THEN read(content, << qRound(content.w * t, big), qRound(content.h * t, big) >>)
    ELSE read(content, NoScaledSize)

\* applyExifRotation, lines 197-203
applyExifRotation(img) == img

\* createImageThumbnail, lines 126-144
createImageThumbnail(content, t) ==
    LET exif == loadExifThumbnail(content, t)
        thumbnail == IF isNull(exif) \/ exif.w < t \div 2 \/ exif.h < t \div 2
                     THEN loadAndScale(content, t)
                     ELSE exif
    IN IF ~isNull(thumbnail) THEN applyExifRotation(thumbnail) ELSE thumbnail

\* findFFmpegPath's function-local statics: not searched yet, or the cached
\* path, empty when no executable was found
Unsearched == "unsearched"
NoPath == ""

\* what the process finds outside itself in one create call: where the search
\* for the executable ends, how the run at 2 s and the run at 0.1 s end, and
\* the file left at tempPath; "none" stands for a step that is not made
Decoder(search, primary, fallback, output) ==
    [search |-> search, primary |-> primary, fallback |-> fallback, output |-> output]

Searches == {"knownPath", "probed", "missing"}
Outputs == {"undecodable", "square", "wide"}

NoDecoder == Decoder("none", "none", "none", "none")

\* the ways the two extraction runs can go
Runs ==
    {Decoder("none", "timeout", "none", "none")}
    \cup { Decoder("none", "zero", "none", o) : o \in Outputs }
    \cup { Decoder("none", "nonzero", q, "none") : q \in {"nonzero", "timeout"} }
    \* the fallback run is past its timeout and writes its output file only
    \* after the call has removed the file, before the process is destroyed
    \cup { Decoder("none", "nonzero", "timeout", "late") }
    \cup { Decoder("none", "nonzero", "zero", o) : o \in Outputs }

\* findFFmpegPath, lines 370-417: the path, and the number of times the
\* executable was started to test it
findFFmpegPath(cachedPath, search) ==
    IF cachedPath # Unsearched THEN [path |-> cachedPath, probes |-> 0]
    ELSE CASE search = "knownPath" -> [path |-> "ffmpeg", probes |-> 0]
           [] search = "probed"    -> [path |-> "ffmpeg", probes |-> 1]
           [] OTHER                -> [path |-> NoPath, probes |-> 1]

\* the behaviours a create call for a video can tell apart when the cached
\* path is cachedPath
Decoders(cachedPath) ==
    IF cachedPath = NoPath THEN {NoDecoder}
    ELSE IF cachedPath # Unsearched THEN Runs
    ELSE {Decoder("missing", "none", "none", "none")}
         \cup { [r EXCEPT !.search = f] : r \in Runs, f \in Searches \ {"missing"} }

\* QImage thumb(tempPath), lines 354-359
decodedFrame(output, t) ==
    CASE output = "square" -> Picture("frame", t, t, <<>>)
      [] output = "wide"   -> Picture("frame", 2 * t, t, <<>>)
      [] OTHER             -> NullImage

\* process: how the QProcess of the call ended ("none": never started;
\* "exited"; "killed" by ffmpeg.kill(); "destroyed": still running at the
\* return statement and killed by ~QProcess); temp: the temp file exists
Extracted(img, runs, found, process, temp) ==
    [image |-> img, runs |-> runs, probes |-> found.probes, ffmpeg |-> found.path,
     process |-> process, temp |-> temp]

\* extractVideoFrameWithFFmpeg without the second run at 0.1 s
extractVideoFrameWithFFmpeg_NoFallback(cachedPath, d, t) ==
    LET found == findFFmpegPath(cachedPath, d.search)
        thumb == decodedFrame(d.output, t)
    IN
    IF found.path = NoPath THEN Extracted(NullImage, 0, found, "none", FALSE)
    ELSE IF d.primary = "zero" /\ ~isNull(thumb)
         THEN Extracted(scaled(thumb, t), 1, found, "exited", FALSE)
    ELSE Extracted(NullImage, 1, found, IF d.primary = "timeout" THEN "killed" ELSE "exited",
                   FALSE)

\* extractVideoFrameWithFFmpeg, lines 288-368: the image, the number of
\* extraction runs started, the test runs of the search and the path cached
extractVideoFrameWithFFmpeg(cachedPath, d, t) ==
    LET found == findFFmpegPath(cachedPath, d.search)
        thumb == decodedFrame(d.output, t)
        frame == IF isNull(thumb) THEN NullImage
                 ELSE IF thumb.w # t \/ thumb.h # t THEN scaled(thumb, t)
                 ELSE thumb
    IN
    IF found.path = NoPath THEN Extracted(NullImage, 0, found, "none", FALSE)
    \* lines 324-329: kill, wait, remove the temp file
    ELSE IF d.primary = "timeout" THEN Extracted(NullImage, 1, found, "killed", FALSE)
    ELSE IF d.primary = "nonzero"
         \* lines 346-349: the temp file is removed with the process still
         \* running when the fallback is past its timeout
         THEN IF d.fallback = "timeout"
              THEN Extracted(NullImage, 2, found, "destroyed", d.output = "late")
              ELSE IF d.fallback # "zero"
              THEN Extracted(NullImage, 2, found, "exited", FALSE)
              ELSE Extracted(frame, 2, found, "exited", FALSE)
    \* lines 354-355: the temp file is read and removed
    ELSE Extracted(frame, 1, found, "exited", FALSE)

\* QImage(t, t, format) with the label the painter draws
placeholder(kind, path, t) ==
    IF t <= 0 THEN NullImage ELSE Picture(kind, t, t, toUpper(suffix(path)))

\* createVideoPlaceholder, lines 475-521
createVideoPlaceholder(path, t) == placeholder("videoPlaceholder", path, t)

\* createAudioPlaceholder, lines 523-594
createAudioPlaceholder(path, t) == placeholder("audioPlaceholder", path, t)

\* createVideoThumbnail without the placeholder
createVideoThumbnail_NoPlaceholder(path, cachedPath, d, t) ==
    extractVideoFrameWithFFmpeg(cachedPath, d, t)

\* createVideoThumbnail, lines 274-286
createVideoThumbnail(path, cachedPath, d, t) ==
    LET x == extractVideoFrameWithFFmpeg(cachedPath, d, t) IN
    IF ~isNull(x.image) THEN x
    ELSE [x EXCEPT !.image = createVideoPlaceholder(path, t)]

-----------------------------------------------------------------------------
(* ThumbnailCreator: the disk cache and create *)

SizeDirs == {"normal", "large"}

\* diskCachePath, line 259
sizeDir(t) == IF t <= NormalBucketMax THEN "normal" ELSE "large"

NoRecord == [present |-> FALSE, mtime |-> 0, image |-> NullImage]
Record(mtime, img) == [present |-> TRUE, mtime |-> mtime, image |-> img]

\* loadFromDiskCache without the comparison of the modification times
loadFromDiskCache_NoStaleCheck(records, src, t) ==
    [image |-> records[sizeDir(t)].image, records |-> records]

\* loadFromDiskCache without the removal of the record that is older
loadFromDiskCache_KeepsStale(records, src, t) ==
    LET rec == records[sizeDir(t)] IN
    IF ~rec.present \/ rec.mtime < src.mtime THEN [image |-> NullImage, records |-> records]
    ELSE [image |-> rec.image, records |-> records]

\* loadFromDiskCache, lines 205-227: the image returned and the records left
loadFromDiskCache(records, src, t) ==
    LET rec == records[sizeDir(t)] IN
    IF ~rec.present THEN [image |-> NullImage, records |-> records]
    ELSE IF rec.mtime < src.mtime
         THEN [image |-> NullImage, records |-> [records EXCEPT ![sizeDir(t)] = NoRecord]]
    ELSE [image |-> rec.image, records |-> records]

\* saveToDiskCache, lines 229-243, in a cache directory that can be written
saveToDiskCache(records, t, thumbnail, time) ==
    [records EXCEPT ![sizeDir(t)] = Record(time, thumbnail)]

Outcome(img, records, fromDisk, generated, made) ==
    [image |-> img, records |-> records, fromDisk |-> fromDisk,
     generated |-> generated, runs |-> made.runs, probes |-> made.probes,
     ffmpeg |-> made.ffmpeg, process |-> made.process, temp |-> made.temp]

\* a path that starts no process and leaves the cached path as it is
NoProcess(img, cachedPath) ==
    [image |-> img, runs |-> 0, probes |-> 0, ffmpeg |-> cachedPath,
     process |-> "none", temp |-> FALSE]

\* create, lines 84-123: the per-media-type path, final scale and save
generate(src, records, cachedPath, t, d, time) ==
    LET mediaType == getMediaType(src.path)
        made == CASE mediaType = "Image" ->
                       NoProcess(createImageThumbnail(src.content, t), cachedPath)
                  [] mediaType = "Video" ->
                       createVideoThumbnail(src.path, cachedPath, d, t)
                  [] mediaType = "Audio" ->
                       NoProcess(createAudioPlaceholder(src.path, t), cachedPath)
                  [] OTHER -> NoProcess(NullImage, cachedPath)
        thumbnail == IF ~isNull(made.image) /\ (made.image.w > t \/ made.image.h > t)
                     THEN scaled(made.image, t)
                     ELSE made.image
    IN IF isNull(thumbnail)
       THEN Outcome(NullImage, records, FALSE, TRUE, made)
       ELSE Outcome(thumbnail, saveToDiskCache(records, t, thumbnail, time),
                    FALSE, TRUE, made)

\* create without the look into the disk cache
createThumbnail_SkipsDiskCache(src, records, cachedPath, t, d, time) ==
    IF src.path = <<>>
    THEN Outcome(NullImage, records, FALSE, FALSE, NoProcess(NullImage, cachedPath))
    ELSE generate(src, records, cachedPath, t, d, time)

\* ThumbnailCreator(t).create(path), lines 60-124
createThumbnail(src, records, cachedPath, t, d, time) ==
    IF src.path = <<>>
    THEN Outcome(NullImage, records, FALSE, FALSE, NoProcess(NullImage, cachedPath))
    ELSE LET cached == loadFromDiskCache(records, src, t) IN
         IF ~isNull(cached.image)
         THEN Outcome(cached.image, cached.records, TRUE, FALSE,
                      NoProcess(cached.image, cachedPath))
         ELSE generate(src, cached.records, cachedPath, t, d, time)

-----------------------------------------------------------------------------
(* Initial state: the singletons just constructed *)

\* the services with room for n worker objects
ServicesInitWith(n) ==
    /\ imageCache = EmptyCache
    /\ imageLRU = <<>>
    /\ maxImages = DefaultMaxImages
    /\ pixmapCache = EmptyCache
    /\ pixmapLRU = <<>>
    /\ maxPixmaps = DefaultMaxPixmaps
    /\ cfgPc = "idle"
    /\ pendingKeys = {}
    /\ tasks = [i \in 1..n |-> NoTask]
    /\ poolQueue = <<>>
    /\ events = <<>>
    /\ maxThreadCount = MinThreads
    /\ imageTouch = <<>>
    /\ pixmapTouch = <<>>
    /\ attempted = [k \in HistoryKeys |-> "no"]
    /\ lastOp = NoOp
    /\ struck = {}
    /\ reader = NoReader
    /\ invalidated = {}
    /\ m_pendingThumbnails = {}
    /\ thumbnailLoaded = {}
    /\ imageExts = {}
    /\ videoExts = {}
    /\ audioExts = {}
    /\ calls = [t \in MediaThreadIds |-> NoCall]
    /\ phase = "eventLoop"

ServicesInit == ServicesInitWith(MaxTasks)

\* target sizes create is called with: two in the "normal" directory, one in "large"
TargetSizes == {64, NormalBucketMax, DefaultSize}

\* the source files create is called for
CreatorPaths == { <<>>,
                  <<"/", "a", ".", "j", "p", "g">>,
                  <<"/", "a", ".", "P", "N", "G">>,
                  <<"/", "x", ".", "a", "/", "b", ".", "T", "S">>,
                  <<"/", "a", ".", "m", "p", "3">>,
                  <<"/", "x", ".", "m", "p", "4", "/", "a">> }

Unreadable == Content(FALSE, 0, 0, FALSE)

\* what the files hold: undecodable bytes, a picture smaller than the two
\* larger target sizes, a wide picture whose handler supports the Size
\* option, and a narrow tall one whose handler does not
Contents == { Unreadable,
              Content(TRUE, 100, 100, TRUE),
              Content(TRUE, 600, 300, TRUE),
              Content(TRUE, 20, 600, FALSE) }

Source(path, content, mtime) == [path |-> path, content |-> content, mtime |-> mtime]

\* no create call made yet
\* what a create call finds in its size directory before it acts
Found(rec, src) ==
    [present |-> rec.present,
     older |-> rec.present /\ rec.mtime < src.mtime,
     decodable |-> rec.present /\ ~isNull(rec.image)]

NoCreate ==
    [called |-> FALSE, size |-> 0, image |-> NullImage, fromDisk |-> FALSE,
     generated |-> FALSE, runs |-> 0, probes |-> 0, process |-> "none", temp |-> FALSE,
     decoder |-> NoDecoder,
     before |-> Found(NoRecord, Source(<<>>, Unreadable, 0)), content |-> Unreadable]

\* the file with the lower-case picture extension holds any of the contents,
\* the other picture a small one, any other file nothing QImageReader decodes
ContentsOf(path) ==
    IF getMediaType(path) # "Image" THEN {Unreadable}
    ELSE IF suffix(path) \in imageExtensions THEN Contents
    ELSE {Content(TRUE, 100, 100, TRUE)}

\* the decoder is looked for and started for video files only
DecodersFor(path, cachedPath) ==
    IF getMediaType(path) = "Video" THEN Decoders(cachedPath) ELSE {NoDecoder}

\* the services just constructed, no file looked at
Init ==
    /\ ServicesInit
    /\ source = Source(<<>>, Unreadable, 0)
    /\ diskRecords = [dir \in SizeDirs |-> NoRecord]
    /\ now = 0
    /\ ffmpegPath = Unsearched
    /\ created = NoCreate
    /\ keyed = NoKeyed

\* one source file on disk, written at time 0; each size directory holds no
\* record for it or one that does not decode
InitCreator ==
    /\ ServicesInit
    /\ \E path \in CreatorPaths : \E content \in ContentsOf(path) :
           source = Source(path, content, 0)
    /\ diskRecords \in [SizeDirs -> {NoRecord, Record(0, NullImage)}]
    /\ now = 0
    /\ ffmpegPath = Unsearched
    /\ created = NoCreate
    /\ keyed = NoKeyed

-----------------------------------------------------------------------------
(* ThumbnailCache operations, each one lock section *)

retrieveImage(k) ==
    /\ imageLRU' = TierRetrieve(imageCache, imageLRU, k)
    /\ imageTouch' = IF TierHas(imageCache, k) THEN Touch(imageTouch, k) ELSE imageTouch
    /\ lastOp' = Op("retrieveImage", k, {}, 0, <<>>)
    /\ UNCHANGED <<creatorVars, auxVars, reader, struck, imageCache, maxImages, pixmapCache, pixmapLRU, maxPixmaps, cfgPc,
                   pixmapTouch, attempted, schedVars>>

putImage(k, img) ==
    LET r == TierPut(imageCache, imageLRU, maxImages, k, img) IN
    /\ SetImageTier(r, Touch(imageTouch, k))
    /\ lastOp' = PutOp("putImage", k, (Keys(imageCache) \cup {k}) \ Keys(r.cache), img)
    /\ UNCHANGED <<creatorVars, auxVars, struck, maxImages, pixmapCache, pixmapLRU, maxPixmaps, cfgPc,
                   pixmapTouch, attempted, schedVars>>

removeImage(k) ==
    LET r == TierRemove(imageCache, imageLRU, k) IN
    /\ SetImageTier(r, imageTouch)
    /\ lastOp' = Op("removeImage", k, {}, 0, <<>>)
    /\ UNCHANGED <<creatorVars, auxVars, struck, maxImages, pixmapCache, pixmapLRU, maxPixmaps, cfgPc,
                   pixmapTouch, attempted, schedVars>>

retrievePixmap(k) ==
    /\ pixmapLRU' = TierRetrieve(pixmapCache, pixmapLRU, k)
    /\ pixmapTouch' = IF TierHas(pixmapCache, k) THEN Touch(pixmapTouch, k) ELSE pixmapTouch
    /\ lastOp' = Op("retrievePixmap", k, {}, 0, <<>>)
    /\ UNCHANGED <<creatorVars, auxVars, reader, struck, pixmapCache, maxPixmaps, imageCache, imageLRU, maxImages, cfgPc,
                   imageTouch, attempted, schedVars>>

putPixmap(k, px) ==
    LET r == TierPut(pixmapCache, pixmapLRU, maxPixmaps, k, px) IN
    /\ SetPixmapTier(r, Touch(pixmapTouch, k))
    /\ lastOp' = PutOp("putPixmap", k, (Keys(pixmapCache) \cup {k}) \ Keys(r.cache), px)
    /\ UNCHANGED <<creatorVars, auxVars, reader, struck, maxPixmaps, imageCache, imageLRU, maxImages, cfgPc,
                   imageTouch, attempted, schedVars>>

removePixmap(k) ==
    LET r == TierRemove(pixmapCache, pixmapLRU, k) IN
    /\ SetPixmapTier(r, pixmapTouch)
    /\ lastOp' = Op("removePixmap", k, {}, 0, <<>>)
    /\ UNCHANGED <<creatorVars, auxVars, reader, struck, maxPixmaps, imageCache, imageLRU, maxImages, cfgPc,
                   imageTouch, attempted, schedVars>>

\* setImageCacheSize, line 189: m_maxImages is stored outside the lock
setImageCacheSize(n) ==
    /\ cfgPc = "idle"
    /\ maxImages' = n
    /\ cfgPc' = "evictImages"
    /\ lastOp' = Op("setImageCacheSize:store", NoKey, {}, 0, <<>>)
    /\ UNCHANGED <<creatorVars, auxVars, reader, struck, imageCache, imageLRU, pixmapCache, pixmapLRU, maxPixmaps,
                   imageTouch, pixmapTouch, attempted, schedVars>>

\* setImageCacheSize, line 190: the call returns after evictImagesIfNeeded
evictImagesIfNeeded ==
    LET r == EvictLoop(imageCache, imageLRU, maxImages) IN
    /\ cfgPc = "evictImages"
    /\ SetImageTier(r, imageTouch)
    /\ cfgPc' = "idle"
    /\ lastOp' = Op("setImageCacheSize", NoKey, Gone(imageCache, r.cache), 0, <<>>)
    /\ UNCHANGED <<creatorVars, auxVars, struck, maxImages, pixmapCache, pixmapLRU, maxPixmaps,
                   pixmapTouch, attempted, schedVars>>

setPixmapCacheSize(n) ==
    /\ cfgPc = "idle"
    /\ maxPixmaps' = n
    /\ cfgPc' = "evictPixmaps"
    /\ lastOp' = Op("setPixmapCacheSize:store", NoKey, {}, 0, <<>>)
    /\ UNCHANGED <<creatorVars, auxVars, reader, struck, imageCache, imageLRU, maxImages, pixmapCache, pixmapLRU,
                   imageTouch, pixmapTouch, attempted, schedVars>>

evictPixmapsIfNeeded ==
    LET r == EvictLoop(pixmapCache, pixmapLRU, maxPixmaps) IN
    /\ cfgPc = "evictPixmaps"
    /\ SetPixmapTier(r, pixmapTouch)
    /\ cfgPc' = "idle"
    /\ lastOp' = Op("setPixmapCacheSize", NoKey, Gone(pixmapCache, r.cache), 0, <<>>)
    /\ UNCHANGED <<creatorVars, auxVars, reader, struck, maxPixmaps, imageCache, imageLRU, maxImages,
                   imageTouch, attempted, schedVars>>

\* clearAll, first lock section
clearAllImages ==
    /\ cfgPc = "idle"
    /\ SetImageTier([cache |-> EmptyCache, lru |-> <<>>], imageTouch)
    /\ cfgPc' = "clearPixmaps"
    /\ lastOp' = Op("clearAll:images", NoKey, {}, 0, <<>>)
    /\ UNCHANGED <<creatorVars, auxVars, struck, maxImages, pixmapCache, pixmapLRU, maxPixmaps,
                   pixmapTouch, attempted, schedVars>>

\* clearAll, second lock section and the cacheCleared signal
clearAllPixmaps ==
    /\ cfgPc = "clearPixmaps"
    /\ SetPixmapTier([cache |-> EmptyCache, lru |-> <<>>], pixmapTouch)
    /\ cfgPc' = "idle"
    /\ lastOp' = Op("clearAll", NoKey, {}, 0, <<"cacheCleared">>)
    /\ UNCHANGED <<creatorVars, auxVars, reader, struck, maxPixmaps, imageCache, imageLRU, maxImages,
                   imageTouch, attempted, schedVars>>

Capacities == 0..MaxCapacity

NextCache ==
    \/ \E k \in TierKeys : retrieveImage(k)
    \/ \E k \in TierKeys, img \in Images : putImage(k, img)
    \/ \E k \in TierKeys : removeImage(k)
    \/ \E k \in TierKeys : retrievePixmap(k)
    \/ \E k \in TierKeys, px \in Pixmaps : putPixmap(k, px)
    \/ \E k \in TierKeys : removePixmap(k)
    \/ \E n \in Capacities : setImageCacheSize(n)
    \/ evictImagesIfNeeded
    \/ \E n \in Capacities : setPixmapCacheSize(n)
    \/ evictPixmapsIfNeeded
    \/ clearAllImages
    \/ clearAllPixmaps

SpecCache == Init /\ [][NextCache]_vars

-----------------------------------------------------------------------------
(* A caller of retrieveImage, with other threads working on the image tier *)

\* what a read through a pointer to an erased or moved node can give
DanglingReads == Images \cup {Null, "garbage"}

\* retrieveImage, lines 44-58, called by a thread that keeps the result:
\* a pointer to the QImage inside the hash node, or nullptr
readerRetrieve(k) ==
    /\ imageLRU' = TierRetrieve(imageCache, imageLRU, k)
    /\ imageTouch' = IF TierHas(imageCache, k) THEN Touch(imageTouch, k) ELSE imageTouch
    /\ lastOp' = Op("retrieveImage", k, {}, 0, <<>>)
    /\ reader' = IF TierHas(imageCache, k)
                 THEN [phase |-> "holding", key |-> k, stored |-> imageCache[k],
                       ref |-> "valid", seen |-> Null]
                 ELSE NoReader
    /\ UNCHANGED <<creatorVars, auxVars, struck, imageCache, maxImages, pixmapCache, pixmapLRU,
                   maxPixmaps, cfgPc, pixmapTouch, attempted, schedVars>>

\* the caller reads the image through the pointer, as load does at lines
\* 95-99, with no lock held
readerUse ==
    /\ reader.phase = "holding"
    /\ \E v \in IF reader.ref = "valid" THEN {imageCache[reader.key]} ELSE DanglingReads :
           reader' = [reader EXCEPT !.phase = "used", !.seen = v]
    /\ lastOp' = Op("readerUse", reader.key, {}, 0, <<>>)
    /\ UNCHANGED <<creatorVars, auxVars, struck, cacheVars, imageTouch, pixmapTouch, attempted,
                   schedVars>>

NextReader ==
    \/ \E k \in TierKeys : readerRetrieve(k)
    \/ readerUse
    \/ \E k \in TierKeys, img \in Images : putImage(k, img)
    \/ \E k \in TierKeys : removeImage(k)
    \/ \E n \in Capacities : setImageCacheSize(n)
    \/ evictImagesIfNeeded
    \/ clearAllImages
    \/ clearAllPixmaps

SpecReader == Init /\ [][NextReader]_vars

-----------------------------------------------------------------------------
(* ThumbnailLoadThread and its QThreadPool *)

\* the places for worker objects
TaskIds == DOMAIN tasks

Alive == { i \in TaskIds : tasks[i].state # "free" }
InState(st) == { i \in Alive : tasks[i].state = st }

\* QThreadPool::activeThreadCount
activeThreadCount == Cardinality(InState("running"))

FreeId == CHOOSE i \in TaskIds \ Alive : \A j \in TaskIds \ Alive : i <= j

\* scheduleTask, lines 219-224
queuePriority(priority) ==
    CASE priority = "Low" -> -1 [] priority = "Normal" -> 0 [] priority = "High" -> 1

\* a queue that takes no account of the priority
PoolEnqueue_FIFO(queue, entry) == Append(queue, entry)

\* QThreadPool's queue: before the first entry of lower priority
RECURSIVE PoolEnqueue(_, _)
PoolEnqueue(queue, entry) ==
    IF queue = <<>> THEN <<entry>>
    ELSE IF Head(queue).priority < entry.priority THEN <<entry>> \o queue
    ELSE <<Head(queue)>> \o PoolEnqueue(Tail(queue), entry)

QueuedIds == { poolQueue[i].id : i \in 1..Len(poolQueue) }

Signal(name, path, arg) == [sig |-> name, path |-> path, arg |-> arg]

\* ThumbnailCreator::create as the worker sees it: a null image or a thumbnail
create(path, size) == {Null, "img1"}

\* a test that misses the keys whose worker has not started
AlreadyPending_IgnoresQueued(key) ==
    key \in pendingKeys /\ \E i \in InState("running") : tasks[i].cacheKey = key

AlreadyPending_Never(key) == FALSE

\* scheduleTask, line 204
AlreadyPending(key) == key \in pendingKeys

\* load, lines 91-95: the test that makes load answer from the cache
CachedForLoad(key) ==
    /\ TierHas(imageCache, key) \/ TierHas(pixmapCache, key)
    /\ TierHas(imageCache, key) /\ imageCache[key] # Null

\* load that fills the display tier on whatever thread it runs
loadCached_AnyThread(path, key, onMain) ==
    LET img == imageCache[key]
        r   == TierPut(pixmapCache, pixmapLRU, maxPixmaps, key, fromImage(img))
    IN
    /\ imageLRU' = TierRetrieve(imageCache, imageLRU, key)
    /\ imageTouch' = Touch(imageTouch, key)
    /\ SetPixmapTier(r, Touch(pixmapTouch, key))
    /\ lastOp' = Op("load", key, (Keys(pixmapCache) \cup {key}) \ Keys(r.cache), 0,
                    IF onMain
                    THEN << Signal("thumbnailLoaded", path, img),
                            Signal("thumbnailReady", path, fromImage(img)) >>
                    ELSE << Signal("thumbnailLoaded", path, img) >>)
    /\ UNCHANGED <<creatorVars, keyed, reader, struck, imageCache, maxImages, maxPixmaps, cfgPc, attempted, schedVars>>

\* load, lines 93-105: the key is cached
loadCached(path, key, onMain) ==
    LET img == imageCache[key]
        r   == TierPut(pixmapCache, pixmapLRU, maxPixmaps, key, fromImage(img))
    IN
    /\ imageLRU' = TierRetrieve(imageCache, imageLRU, key)
    /\ imageTouch' = Touch(imageTouch, key)
    /\ IF onMain
       THEN /\ SetPixmapTier(r, Touch(pixmapTouch, key))
            /\ lastOp' = Op("load", key, (Keys(pixmapCache) \cup {key}) \ Keys(r.cache), 0,
                            << Signal("thumbnailLoaded", path, img),
                               Signal("thumbnailReady", path, fromImage(img)) >>)
       ELSE /\ UNCHANGED <<pixmapCache, pixmapLRU, pixmapTouch>>
            /\ lastOp' = Op("load", key, {}, 0, << Signal("thumbnailLoaded", path, img) >>)
    /\ UNCHANGED <<creatorVars, keyed, reader, struck, imageCache, maxImages, maxPixmaps, cfgPc, attempted, schedVars>>

\* scheduleTask, lines 199-228
scheduleTask(path, size, key, priority) ==
    IF AlreadyPending(key)
    THEN /\ lastOp' = Op("load", key, {}, 0, <<>>)
         /\ UNCHANGED <<creatorVars, keyed, reader, struck, cacheVars, schedVars, imageTouch, pixmapTouch, attempted>>
    ELSE /\ Alive # TaskIds
         /\ pendingKeys' = pendingKeys \cup {key}
         /\ IF activeThreadCount < maxThreadCount
            THEN /\ tasks' = [tasks EXCEPT ![FreeId] =
                        [filePath |-> path, size |-> size, cacheKey |-> key,
                         state |-> "running", image |-> Null]]
                 /\ UNCHANGED poolQueue
            ELSE /\ tasks' = [tasks EXCEPT ![FreeId] =
                        [filePath |-> path, size |-> size, cacheKey |-> key,
                         state |-> "queued", image |-> Null]]
                 /\ poolQueue' = PoolEnqueue(poolQueue,
                        [id |-> FreeId, priority |-> queuePriority(priority)])
         /\ attempted' = [attempted EXCEPT ![key] = IF @ = "void" THEN @ ELSE "yes"]
         /\ lastOp' = Op("load", key, {}, FreeId, <<>>)
         /\ UNCHANGED <<creatorVars, keyed, reader, struck, cacheVars, events, maxThreadCount, imageTouch, pixmapTouch>>

\* load(filePath, size, priority), lines 78-110
loadTask(path, size, priority, onMain) ==
    LET key == makeCacheKey(path, size) IN
    /\ invalidated' = invalidated \ {key}
    /\ IF CachedForLoad(key)
       THEN loadCached(path, key, onMain)
       ELSE scheduleTask(path, size, key, priority)

\* load called by another caller than the thumbnail model
load(path, size, priority, onMain) ==
    /\ loadTask(path, size, priority, onMain)
    /\ UNCHANGED consumerVars

\* QThreadPool: the ids the pool starts from the front of its queue when
\* `room` threads may take a runnable
PoolTakes(room) ==
    { poolQueue[i].id : i \in 1..Min(Len(poolQueue), room) }

PoolLeaves(room) ==
    SubSeq(poolQueue, Min(Len(poolQueue), room) + 1, Len(poolQueue))

WorkerCommit_Never(key, img) ==
    [cache |-> imageCache, lru |-> imageLRU]

\* ThumbnailWorker::run, lines 40-42
WorkerCommit(key, img) ==
    IF img # Null
    THEN TierPut(imageCache, imageLRU, maxImages, key, img)
    ELSE [cache |-> imageCache, lru |-> imageLRU]

\* ThumbnailWorker::run, lines 28-45
run(id, img) ==
    LET key == tasks[id].cacheKey
        r   == WorkerCommit(key, img)
        \* the thread takes the next runnable unless too many threads are active
        room == IF activeThreadCount <= maxThreadCount THEN 1 ELSE 0
    IN
    /\ id \in InState("running")
    /\ SetImageTier(r, IF img # Null THEN Touch(imageTouch, key) ELSE imageTouch)
    /\ tasks' = [i \in TaskIds |->
                    IF i = id THEN [tasks[i] EXCEPT !.state = "finished", !.image = img]
                    ELSE IF i \in PoolTakes(room) THEN [tasks[i] EXCEPT !.state = "running"]
                    ELSE tasks[i]]
    /\ poolQueue' = PoolLeaves(room)
    /\ events' = Append(events, id)
    /\ attempted' = IF img # Null /\ key \in Keys(r.cache)
                    THEN [attempted EXCEPT ![key] = IF @ = "void" THEN @ ELSE "no"]
                    ELSE attempted
    /\ lastOp' = Op("run", key, (Keys(imageCache) \cup {key}) \ Keys(r.cache), id, <<>>)
    /\ struck' = struck \ PoolTakes(room)
    /\ UNCHANGED <<creatorVars, auxVars, maxImages, pixmapCache, pixmapLRU, maxPixmaps, cfgPc,
                   pendingKeys, maxThreadCount, pixmapTouch>>

PendingAfterFinished_KeepsKey(key, img) == pendingKeys

PendingAfterFinished_OnSuccessOnly(key, img) ==
    IF img # Null THEN pendingKeys \ {key} ELSE pendingKeys

\* slotWorkerFinished, lines 233-236
PendingAfterFinished(key, img) == pendingKeys \ {key}

FinishedSignals_SilentFailure(path, img) ==
    IF img # Null
    THEN << Signal("thumbnailLoaded", path, img),
            Signal("thumbnailReady", path, fromImage(img)) >>
    ELSE <<>>

\* slotWorkerFinished, lines 238-248: the signals emitted
FinishedSignals(path, img) ==
    IF img # Null
    THEN << Signal("thumbnailLoaded", path, img),
            Signal("thumbnailReady", path, fromImage(img)) >>
    ELSE << Signal("thumbnailFailed", path, Null) >>

\* slotWorkerFinished, lines 230-249, for the first queued finished() signal
slotWorkerFinished ==
    LET id  == Head(events)
        key == tasks[id].cacheKey
        img == tasks[id].image
        r   == TierPut(pixmapCache, pixmapLRU, maxPixmaps, key, fromImage(img))
    IN
    /\ events # <<>>
    /\ pendingKeys' = PendingAfterFinished(key, img)
    /\ IF img # Null
       THEN SetPixmapTier(r, Touch(pixmapTouch, key))
       ELSE UNCHANGED <<pixmapCache, pixmapLRU, pixmapTouch>>
    /\ tasks' = [tasks EXCEPT ![id] = NoTask]
    /\ events' = Tail(events)
    \* ImageThumbnailModel::onThumbnailAvailable / onThumbnailFailed, lines 707 and 728
    /\ m_pendingThumbnails' = m_pendingThumbnails \ {tasks[id].filePath}
    /\ lastOp' = Op("slotWorkerFinished", key,
                    IF img # Null THEN (Keys(pixmapCache) \cup {key}) \ Keys(r.cache) ELSE {},
                    id, FinishedSignals(tasks[id].filePath, img))
    /\ UNCHANGED <<creatorVars, keyed, invalidated, thumbnailLoaded, reader, struck, imageCache, imageLRU, maxImages, maxPixmaps, cfgPc,
                   poolQueue, maxThreadCount, imageTouch, attempted>>

\* cancel, lines 131-139: the keys removed from m_pendingKeys
CancelledKeys(filePath) ==
    { key \in pendingKeys : startsWith(key, filePath \o <<"@">>) }

\* cancel, lines 124-140
cancel(filePath) ==
    /\ pendingKeys' = pendingKeys \ CancelledKeys(filePath)
    /\ attempted' = [k \in HistoryKeys |->
                        IF startsWith(k, filePath \o <<"@">>) THEN "void" ELSE attempted[k]]
    /\ lastOp' = Op("cancel", filePath, {}, 0, <<>>)
    /\ struck' = struck \cup { i \in QueuedIds : tasks[i].filePath = filePath }
    /\ UNCHANGED <<creatorVars, auxVars, reader, cacheVars, tasks, poolQueue, events, maxThreadCount,
                   imageTouch, pixmapTouch>>

\* cancelAll without the call of QThreadPool::clear
cancelAll_KeepsQueue ==
    /\ pendingKeys' = {}
    /\ attempted' = [k \in HistoryKeys |-> "void"]
    /\ lastOp' = Op("cancelAll", NoKey, { tasks[i].cacheKey : i \in QueuedIds }, 0, <<>>)
    /\ struck' = {}
    /\ UNCHANGED <<creatorVars, auxVars, reader, cacheVars, tasks, poolQueue, events, maxThreadCount,
                   imageTouch, pixmapTouch>>

\* cancelAll that also ends the workers already running
cancelAll_Interrupting ==
    /\ pendingKeys' = {}
    /\ tasks' = [i \in TaskIds |->
                    IF i \in QueuedIds \cup InState("running") THEN NoTask ELSE tasks[i]]
    /\ poolQueue' = <<>>
    /\ attempted' = [k \in HistoryKeys |-> "void"]
    /\ lastOp' = Op("cancelAll", NoKey, { tasks[i].cacheKey : i \in QueuedIds }, 0, <<>>)
    /\ struck' = {}
    /\ UNCHANGED <<creatorVars, auxVars, reader, cacheVars, events, maxThreadCount, imageTouch, pixmapTouch>>

\* cancelAll, lines 142-147; QThreadPool::clear deletes the queued runnables
cancelAllBody ==
    /\ pendingKeys' = {}
    /\ tasks' = [i \in TaskIds |-> IF i \in QueuedIds THEN NoTask ELSE tasks[i]]
    /\ poolQueue' = <<>>
    /\ attempted' = [k \in HistoryKeys |-> "void"]
    /\ lastOp' = Op("cancelAll", NoKey, { tasks[i].cacheKey : i \in QueuedIds }, 0, <<>>)
    /\ struck' = {}
    /\ UNCHANGED <<reader, cacheVars, events, maxThreadCount, imageTouch, pixmapTouch>>

cancelAll ==
    /\ cancelAllBody
    /\ UNCHANGED <<creatorVars, auxVars>>

\* setMaxThreads, lines 189-192; QThreadPool::setMaxThreadCount starts queued
\* runnables while threads are available
setMaxThreads(threads) ==
    LET room == IF threads > activeThreadCount THEN threads - activeThreadCount ELSE 0 IN
    /\ maxThreadCount' = threads
    /\ tasks' = [i \in TaskIds |->
                    IF i \in PoolTakes(room) THEN [tasks[i] EXCEPT !.state = "running"]
                    ELSE tasks[i]]
    /\ poolQueue' = PoolLeaves(room)
    /\ lastOp' = Op("setMaxThreads", NoKey, {}, 0, <<>>)
    /\ struck' = struck \ PoolTakes(room)
    /\ UNCHANGED <<creatorVars, auxVars, reader, cacheVars, pendingKeys, events, imageTouch, pixmapTouch, attempted>>

NextSched ==
    \/ \E p \in Paths, s \in Sizes, pr \in Priorities, m \in BOOLEAN : load(p, s, pr, m)
    \/ \E id \in TaskIds : \E img \in create(tasks[id].filePath, tasks[id].size) : run(id, img)
    \/ slotWorkerFinished
    \/ \E p \in Paths : cancel(p)
    \/ cancelAll
    \/ \E n \in 1..MinThreads : setMaxThreads(n)
    \/ \E k \in AllKeys : removeImage(k)

SpecSched == Init /\ [][NextSched]_vars

-----------------------------------------------------------------------------
(* ThumbnailCreator: create calls and the file system around them *)

\* ThumbnailCreator(t).create(source.path)
createCall(t, d) ==
    LET out == createThumbnail(source, diskRecords, ffmpegPath, t, d, now) IN
    /\ diskRecords' = out.records
    /\ ffmpegPath' = out.ffmpeg
    /\ created' = [called |-> TRUE, size |-> t, image |-> out.image,
                   fromDisk |-> out.fromDisk, generated |-> out.generated,
                   runs |-> out.runs, probes |-> out.probes,
                   process |-> out.process, temp |-> out.temp,
                   decoder |-> IF out.generated THEN d ELSE NoDecoder,
                   before |-> Found(diskRecords[sizeDir(t)], source),
                   content |-> source.content]
    /\ UNCHANGED <<source, now, processVars, cacheVars, schedVars, histVars, reader, auxVars>>

\* the source file is rewritten
touchSource(content) ==
    /\ now < MaxClock
    /\ now' = now + 1
    /\ source' = Source(source.path, content, now + 1)
    /\ UNCHANGED <<diskRecords, ffmpegPath, created, processVars, cacheVars, schedVars, histVars, reader, auxVars>>

\* time passes
tick ==
    /\ now < MaxClock
    /\ now' = now + 1
    /\ UNCHANGED <<source, diskRecords, ffmpegPath, created, processVars, cacheVars, schedVars, histVars, reader, auxVars>>

NextCreator ==
    \/ \E t \in TargetSizes : \E d \in DecodersFor(source.path, ffmpegPath) :
           createCall(t, d)
    \/ \E content \in ContentsOf(source.path) : touchSource(content)
    \/ tick

SpecCreator == InitCreator /\ [][NextCreator]_vars

-----------------------------------------------------------------------------
(* Claims about the cache tiers, checked under SpecCache *)

KeyA == makeCacheKey(<<"a">>, 1)
KeyB == makeCacheKey(<<"a">>, 2)
KeyC == makeCacheKey(<<"b">>, 1)

\* the put of k took the tier from `before` to `after`; `order` is the touch
\* history before the put
PutEvictsOldest(before, after, order, max, k) ==
    LET present == Keys(before) \cup {k}
        gone    == present \ Keys(after)
        hist    == Touch(order, k)
    IN /\ Keys(after) \subseteq present
       /\ (k \notin Keys(before) /\ Cardinality(present) > max)
              => /\ gone # {}
                 /\ Cardinality(Keys(after)) = max
       /\ Cardinality(present) <= max => gone = {}
       /\ \A e \in gone, r \in Keys(after) : Pos(hist, e) < Pos(hist, r)

\* C1: a put that makes a tier exceed its maximum evicts the keys least
\* recently put or retrieved among those present, and only as many as needed
LruEvictionOrder ==
    [][ /\ lastOp'.op = "putImage" =>
              PutEvictsOldest(imageCache, imageCache', imageTouch, maxImages, lastOp'.key)
        /\ lastOp'.op = "putPixmap" =>
              PutEvictsOldest(pixmapCache, pixmapCache', pixmapTouch, maxPixmaps, lastOp'.key)
      ]_vars

\* capacity 2; put(A), put(B), get(A), put(C) has evicted B and left {A, C}
LruEvictionOrderWitness ==
    /\ maxImages = 2
    /\ lastOp.op = "putImage" /\ lastOp.key = KeyC /\ lastOp.evicted = {KeyB}
    /\ imageTouch = <<KeyA, KeyC>>
    /\ Keys(imageCache) = {KeyA, KeyC}

TierBijection(cache, lru) ==
    /\ SeqSet(lru) = Keys(cache)
    /\ \A i, j \in 1..Len(lru) : lru[i] = lru[j] => i = j
    /\ Cardinality(Keys(cache)) = Len(lru)

\* C2: in every reachable state each tier's map and LRU list hold the same
\* keys, each key once in the list, and the map's count is the list's length
CacheBijection ==
    /\ TierBijection(imageCache, imageLRU)
    /\ TierBijection(pixmapCache, pixmapLRU)

\* an eviction has just happened while another thread is between two lock
\* sections and both tiers hold entries
CacheBijectionWitness ==
    /\ lastOp.evicted # {}
    /\ cfgPc # "idle"
    /\ Len(imageLRU) >= 2
    /\ Len(pixmapLRU) >= 2

ImageMutators == {"putImage", "removeImage", "setImageCacheSize", "clearAll"}
PixmapMutators == {"putPixmap", "removePixmap", "setPixmapCacheSize", "clearAll"}

\* C3: after every completed mutating operation on a tier its resident count
\* is at most the tier's configured maximum
CapacityAfterEveryOperation ==
    /\ lastOp.op \in ImageMutators => Cardinality(Keys(imageCache)) <= maxImages
    /\ lastOp.op \in PixmapMutators => Cardinality(Keys(pixmapCache)) <= maxPixmaps

\* the evict step of set*CacheSize took the tier from (c, l) to (c2, l2) under max
ShrinkKeepsMostRecent(c, l, order, c2, l2, max) ==
    LET n == Min(Len(l), max) IN
    /\ l2 = SubSeq(l, 1, n)
    /\ c2 = [x \in SeqSet(l2) |-> c[x]]
    /\ Len(l) > max => Len(l2) = max
    /\ Len(l) <= max => (l2 = l /\ c2 = c)
    /\ Keys(c2) = { order[i] : i \in (Len(order) - n + 1)..Len(order) }

\* C4: setting a tier's maximum below its resident count evicts from the LRU
\* tail until the count equals the new bound, leaving the most recently used
\* keys; setting it at or above the count changes neither contents nor order
CapacityShrink ==
    [][ /\ lastOp'.op = "setImageCacheSize" =>
              ShrinkKeepsMostRecent(imageCache, imageLRU, imageTouch,
                                    imageCache', imageLRU', maxImages)
        /\ lastOp'.op = "setPixmapCacheSize" =>
              ShrinkKeepsMostRecent(pixmapCache, pixmapLRU, pixmapTouch,
                                    pixmapCache', pixmapLRU', maxPixmaps)
        /\ lastOp'.op \in {"setImageCacheSize:store", "setPixmapCacheSize:store"} =>
              UNCHANGED <<imageCache, imageLRU, pixmapCache, pixmapLRU>>
      ]_vars

\* a shrink to 1 has just evicted two keys and kept the most recently used one
CapacityShrinkWitness ==
    /\ lastOp.op = "setImageCacheSize"
    /\ Cardinality(lastOp.evicted) = 2
    /\ maxImages = 1
    /\ Len(imageLRU) = 1

-----------------------------------------------------------------------------
(* Claims about the scheduler, checked under SpecSched and SpecSchedFair *)

\* every started run() returns, and the consumer's event loop delivers the
\* queued finished() signals
SpecSchedFair ==
    /\ SpecSched
    /\ \A id \in 1..MaxTasks :
          WF_vars(\E img \in create(tasks[id].filePath, tasks[id].size) : run(id, img))
    /\ WF_vars(slotWorkerFinished)

TasksFor(k) == { i \in Alive : tasks[i].cacheKey = k }
Generating(k) == { i \in TasksFor(k) : tasks[i].state \in {"queued", "running"} }

\* C5 as stated: while a key is not cached (and no cancel has touched it),
\* loads for it submit one generation task and no second one
OneGenerationPerUncachedKey ==
    [][ (lastOp'.op = "load" /\ lastOp'.task # 0) => attempted[lastOp'.key] # "yes" ]_vars

\* C5 as amended: a load for a key that is not in the image tier submits
\* exactly one task when the key is not pending, and is a no-op while the key
\* is pending; so N loads issued while the key stays pending submit one task
DedupWhilePending ==
    [][ lastOp'.op = "load" =>
          LET k == lastOp'.key
              id == lastOp'.task
          IN /\ (k \notin Keys(imageCache) /\ k \in pendingKeys) =>
                   /\ id = 0
                   /\ lastOp'.emitted = <<>>
                   /\ UNCHANGED <<tasks, poolQueue, events, pendingKeys>>
             /\ (k \notin Keys(imageCache) /\ k \notin pendingKeys) =>
                   /\ id \in TaskIds \ Alive
                   /\ tasks'[id].cacheKey = k
                   /\ tasks'[id].state \in {"queued", "running"}
                   /\ \A j \in TaskIds \ {id} : tasks'[j] = tasks[j]
                   /\ pendingKeys' = pendingKeys \cup {k}
      ]_vars

\* a second load arrived while the first task for the key was still running
\* and was absorbed
DedupWhilePendingWitness ==
    /\ lastOp.op = "load" /\ lastOp.task = 0 /\ lastOp.emitted = <<>>
    /\ lastOp.key \in pendingKeys
    /\ Cardinality(TasksFor(lastOp.key)) = 1
    /\ attempted[lastOp.key] = "yes"

\* C6: no two generation tasks for the same key are queued or running together
NoDuplicateGeneration ==
    \A k \in AllKeys : Cardinality(Generating(k)) <= 1

\* C7: a key is pending iff exactly one task for it is queued, running or
\* finished with its completion not yet processed
PendingIffOneTask ==
    \A k \in AllKeys : (k \in pendingKeys) <=> (Cardinality(TasksFor(k)) = 1)

\* C8: a load for a key held in the image tier or in the display tier emits a
\* notification at once, submits no task and leaves the pending set unchanged
CachedLoadAnswersFromCache ==
    [][ ( /\ lastOp'.op = "load"
          /\ lastOp'.key \in Keys(imageCache) \cup Keys(pixmapCache) ) =>
              /\ lastOp'.emitted # <<>>
              /\ lastOp'.task = 0
              /\ UNCHANGED <<pendingKeys, tasks, poolQueue>>
      ]_vars

Notified(id) == lastOp.op = "slotWorkerFinished" /\ lastOp.task = id
Submitted(id) == tasks[id].state \in {"queued", "running"}

\* C9 as stated, its last clause: no submitted task is left without a
\* notification, so a task leaves the queued and running states only by
\* finishing, after which its completion is delivered
NoTaskLeftWithoutNotification ==
    [][ \A id \in TaskIds :
          Submitted(id) => (Submitted(id)' \/ tasks'[id].state = "finished") ]_vars

OneOutcome(sigs, path) ==
    /\ \A i \in 1..Len(sigs) : sigs[i].path = path
    /\ Cardinality({ i \in 1..Len(sigs) :
                       sigs[i].sig \in {"thumbnailReady", "thumbnailFailed"} }) = 1

Running(id) == tasks[id].state = "running"

\* C9 as amended: every task a pool thread has started eventually has its
\* completion processed, whatever cancel and cancelAll do meanwhile; that step
\* emits exactly one outcome (ready or failed) for the task's path, removes
\* its key from the pending set and ends the task
EveryStartedTaskNotified ==
    /\ \A id \in 1..MaxTasks : Running(id) ~> Notified(id)
    /\ [][ lastOp'.op = "slotWorkerFinished" =>
             /\ OneOutcome(lastOp'.emitted, tasks[lastOp'.task].filePath)
             /\ tasks[lastOp'.task].cacheKey \notin pendingKeys'
             /\ tasks'[lastOp'.task] = NoTask
         ]_vars

\* a task whose key a cancel had taken out of the pending set has been
\* notified while another task is still running
EveryStartedTaskNotifiedWitness ==
    /\ lastOp.op = "slotWorkerFinished"
    /\ lastOp.emitted # <<>>
    /\ lastOp.key \notin pendingKeys
    /\ attempted[lastOp.key] = "void"
    /\ InState("running") # {}

\* C10: a task whose creator returned no image writes to neither tier, and
\* its completion removes its key from the pending set and emits
\* thumbnailFailed for its path
FailedTaskClearsPending ==
    [][ /\ (lastOp'.op = "run" /\ tasks'[lastOp'.task].image = Null) =>
              UNCHANGED <<imageCache, imageLRU, pixmapCache, pixmapLRU>>
        /\ (lastOp'.op = "slotWorkerFinished" /\ tasks[lastOp'.task].image = Null) =>
              /\ pendingKeys' = pendingKeys \ {tasks[lastOp'.task].cacheKey}
              /\ lastOp'.emitted =
                     << Signal("thumbnailFailed", tasks[lastOp'.task].filePath, Null) >>
              /\ UNCHANGED <<imageCache, imageLRU, pixmapCache, pixmapLRU>>
      ]_vars

\* a failed task's completion has just been processed while its key was pending
FailedTaskClearsPendingWitness ==
    /\ lastOp.op = "slotWorkerFinished"
    /\ lastOp.emitted = << Signal("thumbnailFailed", <<"a">>, Null) >>
    /\ makeCacheKey(<<"a">>, 1) \notin pendingKeys
    /\ makeCacheKey(<<"a">>, 1) \notin Keys(imageCache) \cup Keys(pixmapCache)
    /\ attempted[makeCacheKey(<<"a">>, 1)] = "yes"

-----------------------------------------------------------------------------
(* Claims about notifications and the image tier, checked under SpecSched *)

SuccessSignals == {"thumbnailLoaded", "thumbnailReady"}

\* C11: whenever the completion of a task emits a success notification, the
\* image tier holds an entry for the task's cache key at that moment
SuccessImpliesImageResident ==
    [][ ( /\ lastOp'.op = "slotWorkerFinished"
          /\ \E i \in 1..Len(lastOp'.emitted) : lastOp'.emitted[i].sig \in SuccessSignals )
        => lastOp'.key \in Keys(imageCache') ]_vars

-----------------------------------------------------------------------------
(* One file requested at the default size, from empty caches *)

NextFirstLoad ==
    \/ \E pr \in Priorities, m \in BOOLEAN : load(PhotoPath, DefaultSize, pr, m)
    \/ \E id \in TaskIds : \E img \in create(tasks[id].filePath, tasks[id].size) : run(id, img)
    \/ slotWorkerFinished
    \/ retrieveImage(PhotoKey)
    \/ retrievePixmap(PhotoKey)
    \/ removePixmap(PhotoKey)
    \/ \E n \in Capacities : setPixmapCacheSize(n)
    \/ evictPixmapsIfNeeded
    \/ \E n \in 1..MinThreads : setMaxThreads(n)

SpecFirstLoad == Init /\ [][NextFirstLoad]_vars

\* C12: from empty caches and an empty pending set a load of the file at size
\* 256 schedules exactly one task; once that task has succeeded the image tier
\* holds one entry, retrieveImage returns the image the worker stored, and a
\* further load for the key schedules no task
FirstLoadScenario ==
    [][ /\ ( /\ lastOp'.op = "load"
             /\ Keys(imageCache) = {} /\ Keys(pixmapCache) = {}
             /\ pendingKeys = {} /\ Alive = {} ) =>
                /\ lastOp'.task \in TaskIds
                /\ Alive' = {lastOp'.task}
                /\ tasks'[lastOp'.task].cacheKey = PhotoKey
                /\ tasks'[lastOp'.task].size = DefaultSize
                /\ pendingKeys' = {PhotoKey}
        /\ (lastOp'.op = "run" /\ tasks'[lastOp'.task].image # Null) =>
                /\ Cardinality(Keys(imageCache')) = 1
                /\ Lookup(imageCache', PhotoKey) = tasks'[lastOp'.task].image
        /\ PhotoKey \in Keys(imageCache) =>
                /\ imageCache' = imageCache
                /\ Len(imageLRU') = 1
                /\ Lookup(imageCache', PhotoKey) \in create(PhotoPath, DefaultSize) \ {Null}
                /\ lastOp'.op = "load" =>
                      /\ lastOp'.task = 0
                      /\ UNCHANGED <<tasks, poolQueue, pendingKeys>>
      ]_vars

\* the task has succeeded and its completion has been processed; a further
\* load for the key has just been answered from the image tier
FirstLoadScenarioWitness ==
    /\ lastOp.op = "load" /\ lastOp.key = PhotoKey /\ lastOp.task = 0
    /\ lastOp.emitted # <<>>
    /\ Cardinality(Keys(imageCache)) = 1
    /\ Lookup(imageCache, PhotoKey) = "img1"
    /\ Alive = {} /\ pendingKeys = {}

-----------------------------------------------------------------------------
(* C13 *)

\* the step is a create call for a file
CreateStep == source' = source /\ now' = now /\ created'.called /\ source.path # <<>>

\* the record the call of this step finds in its size directory
RecordFound == diskRecords[sizeDir(created'.size)]

\* C13: a create call that finds a record older than the source does not
\* return it and runs the generation path for the file's media type; a call
\* that finds a decodable record not older than the source returns that record
\* and runs no generation
StaleRegeneratedFreshReturned ==
    /\ [] ( (created.called /\ source.path # <<>>) =>
              /\ created.before.older =>
                    (~created.fromDisk /\ created.generated)
              /\ (created.before.decodable /\ ~created.before.older) =>
                    (created.fromDisk /\ ~created.generated /\ created.runs = 0) )
    /\ [][ CreateStep =>
              /\ (RecordFound.present /\ RecordFound.mtime < source.mtime) =>
                    /\ created'.generated
                    /\ diskRecords'[sizeDir(created'.size)] # RecordFound
              /\ ( /\ RecordFound.present
                   /\ RecordFound.mtime >= source.mtime
                   /\ ~isNull(RecordFound.image) ) =>
                    /\ created'.image = RecordFound.image
                    /\ ~created'.generated
                    /\ UNCHANGED diskRecords ]_vars

\* a call has returned a record written after the source was rewritten, that
\* is, after the record of before the rewrite had been replaced
StaleRegeneratedFreshReturnedWitness ==
    /\ created.called /\ created.fromDisk
    /\ source.path # <<>> /\ source.mtime > 0
    /\ created.before.decodable /\ ~created.before.older
    /\ diskRecords[sizeDir(created.size)].mtime = source.mtime

-----------------------------------------------------------------------------
(* C14 *)

\* C14: the image a create call with target size t returns is at most t wide
\* and at most t high, whatever create calls were made for the file before
ReturnedWithinTarget ==
    (created.called /\ ~isNull(created.image)) =>
        (created.image.w <= created.size /\ created.image.h <= created.size)

-----------------------------------------------------------------------------
(* C15 *)

\* the call was made for a picture file that decodes and is smaller than the
\* target size in both dimensions
SmallPicture ==
    /\ created.called
    /\ getMediaType(source.path) = "Image"
    /\ created.content.decodable
    /\ created.content.w < created.size
    /\ created.content.h < created.size

\* C15: for a picture smaller than the target size in both dimensions, the
\* thumbnail create returns has exactly the picture's width and height
SmallPictureKeepsItsSize ==
    SmallPicture =>
        (created.image.w = created.content.w /\ created.image.h = created.content.h)

-----------------------------------------------------------------------------
(* C16 *)

\* the last create call was for a video file and reached the generation path
VideoGenerated ==
    created.called /\ created.generated /\ getMediaType(source.path) = "Video"

\* the run at 2 s exited non-zero, the run at 0.1 s exited zero and left a
\* file that decodes: the call returns the decoded frame
FallbackFrameReturned ==
    ( /\ VideoGenerated
      /\ created.decoder.primary = "nonzero"
      /\ created.decoder.fallback = "zero"
      /\ created.decoder.output \in {"square", "wide"} ) =>
        /\ created.image.kind = "frame"
        /\ created.runs = 2

\* both runs failed: the call returns the video placeholder, labelled with
\* the file's extension in upper case
BothFailPlaceholder ==
    ( /\ VideoGenerated
      /\ created.decoder.primary = "nonzero"
      /\ created.decoder.fallback \in {"nonzero", "timeout"} ) =>
        /\ created.image =
              Picture("videoPlaceholder", created.size, created.size,
                      toUpper(suffix(source.path)))
        /\ created.image.label # <<>>
        /\ toLower(created.image.label) \in videoExtensions
        /\ created.runs = 2

\* C16 as stated: the frame of the fallback run is returned, two failed runs
\* give the labelled placeholder, and one create call starts the decoder
\* executable at most twice
DecoderStartedAtMostTwice ==
    /\ FallbackFrameReturned
    /\ BothFailPlaceholder
    /\ created.called => created.runs + created.probes <= 2

\* C16, amended: the frame of the fallback run is returned, two failed runs
\* give the labelled placeholder, and one create call makes at most two
\* extraction runs; the call that searches for the executable may start it
\* once more to test it, a call made once the path is cached never does
AtMostTwoExtractionRuns ==
    /\ [] ( /\ FallbackFrameReturned
            /\ BothFailPlaceholder
            /\ created.called =>
                  /\ created.runs <= 2
                  /\ created.probes <= 1
                  /\ created.probes = 1 => created.decoder.search \in {"probed", "missing"}
                  /\ ~VideoGenerated => created.runs + created.probes = 0 )
    /\ [][ (ffmpegPath # Unsearched /\ created' # created) =>
              (created'.probes = 0 /\ ffmpegPath' = ffmpegPath) ]_vars

\* a call has found the executable by testing it, run it at 2 s with a
\* non-zero exit and at 0.1 s with success, and returned the frame
AtMostTwoExtractionRunsWitness ==
    /\ VideoGenerated
    /\ created.decoder = Decoder("probed", "nonzero", "zero", "wide")
    /\ created.image.kind = "frame"
    /\ created.runs = 2 /\ created.probes = 1

-----------------------------------------------------------------------------
(* C17 *)

\* the kinds of image a create call can return for each media type
KindsOf(mediaType) ==
    CASE mediaType = "Video" -> {"frame", "videoPlaceholder"}
      [] mediaType = "Audio" -> {"audioPlaceholder"}
      [] mediaType = "Image" -> {"image", "null"}
      [] OTHER               -> {"null"}

\* C17: for a non-empty path classified as video or audio, create returns an
\* image that is not null, a decoded frame or a placeholder, whatever the
\* decoder did; a null result comes only from picture and unknown files
PlaceholderNeverAbsent ==
    (created.called /\ source.path # <<>>) =>
        /\ created.image.kind \in KindsOf(getMediaType(source.path))
        /\ getMediaType(source.path) \in {"Video", "Audio"} =>
              (~isNull(created.image) /\ created.image.w > 0 /\ created.image.h > 0)
        /\ isNull(created.image) => getMediaType(source.path) \in {"Image", "Unknown"}

\* a call for a video file found no decoder executable and returned the
\* placeholder
PlaceholderNeverAbsentWitness ==
    /\ VideoGenerated
    /\ created.decoder.search = "missing"
    /\ created.image.kind = "videoPlaceholder"

-----------------------------------------------------------------------------
(* C18 *)

\* the cache keys of one file path, at any size
KeysOfPath(path) == { makeCacheKey(path, s) : s \in Sizes }

\* C18: cancel(path) removes from the pending set only keys of that path; the
\* pending keys of every other path stay, also those of a path that begins
\* with the given path followed by '@'
CancelRemovesOnlyItsPath ==
    [][ lastOp'.op = "cancel" =>
           /\ pendingKeys' \subseteq pendingKeys
           /\ pendingKeys \ pendingKeys' \subseteq KeysOfPath(lastOp'.key)
           /\ \A q \in Paths \ {lastOp'.key} :
                 KeysOfPath(q) \cap pendingKeys \subseteq pendingKeys' ]_vars

-----------------------------------------------------------------------------
(* C19 *)

\* C19: a task that was still queued when cancel was called for its path never
\* starts running afterwards
CancelledTaskNeverStarts ==
    [][ \A i \in struck : tasks'[i].state # "running" ]_vars

-----------------------------------------------------------------------------
(* C20 *)

\* the step is the return of worker id's run: its finished() signal is queued
\* and an image that was created is in the image tier under the task's key
Completes(id) ==
    /\ lastOp'.op = "run" /\ lastOp'.task = id
    /\ tasks'[id].state = "finished"
    /\ events' = Append(events, id)
    /\ tasks'[id].image # Null =>
          /\ tasks[id].cacheKey \in Keys(imageCache')
          /\ imageCache'[tasks[id].cacheKey] = tasks'[id].image

\* the step is the processing of worker id's completion: one outcome is
\* emitted for its path, a success exactly when an image was created
Notifies(id) ==
    /\ lastOp'.op = "slotWorkerFinished" /\ lastOp'.task = id
    /\ OneOutcome(lastOp'.emitted, tasks[id].filePath)
    /\ (tasks[id].image # Null) <=>
          (\E n \in 1..Len(lastOp'.emitted) : lastOp'.emitted[n].sig \in SuccessSignals)

\* C20: cancel and cancelAll leave every started task, the queued finished()
\* signals and both tiers as they are; a running task stops running only by
\* completing, which commits a created image; a completed task goes away only
\* by having its success or failure notification emitted
StartedTaskNotInterrupted ==
    [][ /\ lastOp'.op \in {"cancel", "cancelAll"} =>
              /\ \A id \in TaskIds :
                    tasks[id].state \in {"running", "finished"} => tasks'[id] = tasks[id]
              /\ UNCHANGED <<events, imageCache, pixmapCache>>
        /\ \A id \in TaskIds :
              Running(id) => (tasks'[id] = tasks[id] \/ Completes(id))
        /\ \A id \in TaskIds :
              tasks[id].state = "finished" => (tasks'[id] = tasks[id] \/ Notifies(id))
      ]_vars

\* a worker whose key a cancel or cancelAll had taken out of the pending set
\* has completed and its image is in the image tier
StartedTaskNotInterruptedWitness ==
    /\ lastOp.op = "run"
    /\ tasks[lastOp.task].state = "finished"
    /\ tasks[lastOp.task].image # Null
    /\ lastOp.key \notin pendingKeys
    /\ lastOp.key \in Keys(imageCache)

-----------------------------------------------------------------------------
(* C21 *)

\* C21: when cancelAll returns the pending set and the pool's queue are
\* empty and the workers that were queued are gone, so none of them can start;
\* the workers already started and the finished() signals already queued are
\* as before
CancelAllEmptiesQueue ==
    /\ [][ lastOp'.op = "cancelAll" =>
              /\ pendingKeys' = {}
              /\ poolQueue' = <<>>
              /\ \A id \in TaskIds :
                    IF tasks[id].state = "queued"
                    THEN tasks'[id] = NoTask
                    ELSE tasks'[id] = tasks[id]
              /\ events' = events ]_vars
    /\ [] (lastOp.op = "cancelAll" => InState("queued") = {})
    /\ [][ \A id \in TaskIds :
              (tasks[id].state # "running" /\ tasks'[id].state = "running") =>
                 \/ tasks[id].state = "queued" /\ tasks'[id].cacheKey = tasks[id].cacheKey
                 \/ tasks[id].state = "free" /\ lastOp'.op = "load" /\ lastOp'.task = id
         ]_vars

\* cancelAll has just removed a queued worker while another worker was running
CancelAllEmptiesQueueWitness ==
    /\ lastOp.op = "cancelAll"
    /\ lastOp.evicted # {}
    /\ InState("running") # {}
    /\ InState("queued") = {} /\ poolQueue = <<>> /\ pendingKeys = {}

-----------------------------------------------------------------------------
(* C22 *)

\* C22: what a caller reads from the entry retrieveImage returned is the
\* value that was stored at the time of the call, whatever puts, removals,
\* evictions and clears other threads have made on the tier since
RetrievedEntryStaysValid ==
    reader.phase = "used" => reader.seen = reader.stored

-----------------------------------------------------------------------------
(* C23 *)

\* the step was made in the consumer's thread: it is the delivery of a queued
\* finished() signal, or a load that took the main-thread branch of lines
\* 99-104, the only place where load emits thumbnailReady
InConsumerContext ==
    \/ lastOp'.op = "slotWorkerFinished"
    \/ /\ lastOp'.op = "load"
       /\ \E n \in 1..Len(lastOp'.emitted) : lastOp'.emitted[n].sig = "thumbnailReady"

\* C23: a worker's run leaves the display tier alone, and every step that
\* changes the display tier or its LRU order is made in the consumer's thread
DisplayTierOnlyInConsumerContext ==
    [][ /\ lastOp'.op = "run" => UNCHANGED <<pixmapCache, pixmapLRU, pixmapTouch>>
        /\ ~UNCHANGED <<pixmapCache, pixmapLRU, pixmapTouch>> => InConsumerContext
      ]_vars

\* a load made off the main thread has answered from the image tier and left
\* the display tier, which holds another key, without this one, while a worker
\* is running
DisplayTierOnlyInConsumerContextWitness ==
    /\ lastOp.op = "load"
    /\ Len(lastOp.emitted) = 1
    /\ lastOp.emitted[1].sig = "thumbnailLoaded"
    /\ lastOp.key \in Keys(imageCache)
    /\ Keys(pixmapCache) # {}
    /\ lastOp.key \notin Keys(pixmapCache)
    /\ InState("running") # {}

-----------------------------------------------------------------------------
(* C24 *)

\* file paths keys are made for: with and without '@', '%' and digits
KeyPaths == { <<"x">>, <<"x", "@", "1">>, <<"x", "5">>, <<"x", "%", "2">>, <<"%", "1">> }

\* thumbnail sizes keys are made for: makeCacheKey takes any int
KeySizes == {-1, 5, 256}

\* two requests whose keys are not made yet
InitKeys ==
    /\ ServicesInit
    /\ source = Source(<<>>, Unreadable, 0)
    /\ diskRecords = [dir \in SizeDirs |-> NoRecord]
    /\ now = 0
    /\ ffmpegPath = Unsearched
    /\ created = NoCreate
    /\ \E p1 \in KeyPaths, p2 \in KeyPaths : \E s1 \in KeySizes, s2 \in KeySizes :
           keyed = [path |-> <<p1, p2>>, size |-> <<s1, s2>>, key |-> <<NoKey, NoKey>>]

\* ThumbnailInfo::makeCacheKey is called for the i-th request
keyCall(i) ==
    /\ keyed.key[i] = NoKey
    /\ keyed' = [keyed EXCEPT !.key[i] = makeCacheKey(keyed.path[i], keyed.size[i])]
    /\ UNCHANGED <<cacheVars, schedVars, histVars, creatorVars, reader, invalidated, consumerVars>>

NextKeys == \E i \in {1, 2} : keyCall(i)

SpecKeys == InitKeys /\ [][NextKeys]_vars

\* C24: two requests that were given the same key have the same path and the
\* same size, and requests with the same path and size have the same key
CacheKeyCollisionFree ==
    (keyed.key[1] # NoKey /\ keyed.key[2] # NoKey) =>
        (keyed.key[1] = keyed.key[2]
            <=> (keyed.path[1] = keyed.path[2] /\ keyed.size[1] = keyed.size[2]))

-----------------------------------------------------------------------------
(* C25 *)

\* the signals of the step just made include a success notification
EmitsSuccess ==
    \E n \in 1..Len(lastOp'.emitted) : lastOp'.emitted[n].sig = "thumbnailLoaded"

-----------------------------------------------------------------------------
(* C26 *)

\* C26: the delivery of a task's finished() signal to the scheduler leaves
\* the pixmap tier as it was: its entries, its LRU order and its capacity
CompletionLeavesPixmapTier ==
    [][ lastOp'.op = "slotWorkerFinished" =>
            UNCHANGED <<pixmapCache, pixmapLRU, maxPixmaps>> ]_vars

-----------------------------------------------------------------------------
(* C27 *)

\* C27: a create call whose primary extraction run failed, by a non-zero exit
\* code or by running into its timeout, has started exactly one more
\* extraction run, the fallback, before it returned
VideoFailureRetriedOnce ==
    (created.called /\ created.decoder.primary \in {"nonzero", "timeout"}) =>
        created.runs = 2

-----------------------------------------------------------------------------
(* C28 *)

\* C28: when a create call has returned, no decoder process it started is
\* running and the temporary output file of the extraction does not exist
ExtractionLeavesNothing ==
    created.called => (created.process # "running" /\ ~created.temp)

-----------------------------------------------------------------------------
(* C29 *)

\* the path is empty, or its extension is in none of the three tables, or
\* it names a picture that cannot be read
SourceRejected ==
    \/ source.path = <<>>
    \/ getMediaType(source.path) = "Unknown"
    \/ getMediaType(source.path) = "Image" /\ source.content = Unreadable

\* C29: a create call for an empty path, an unknown extension or an
\* unreadable picture returns a null image and leaves every record of the
\* disk cache as it was
RejectedCreateLeavesDiskCache ==
    [][ (SourceRejected /\ (created' # created \/ diskRecords' # diskRecords)) =>
            (isNull(created'.image) /\ diskRecords' = diskRecords) ]_vars

-----------------------------------------------------------------------------
(* C30 *)

\* the record in the size directory of the call of this step, after the call
RecordLeft == diskRecords'[sizeDir(created'.size)]

\* C30: a create call that finds a record older than the source leaves no
\* record older than the source in that size directory: it leaves the
\* thumbnail it returns, written at the time of the call, or no record when
\* it returns a null image; the other size directory is left as it was
StaleRecordNeverSurvives ==
    [][ (CreateStep /\ RecordFound.present /\ RecordFound.mtime < source.mtime) =>
            /\ ~(RecordLeft.present /\ RecordLeft.mtime < source.mtime)
            /\ IF isNull(created'.image)
               THEN RecordLeft = NoRecord
               ELSE RecordLeft = Record(now, created'.image)
            /\ \A dir \in SizeDirs \ {sizeDir(created'.size)} :
                   diskRecords'[dir] = diskRecords[dir] ]_vars

\* a call found a record older than the rewritten source and has left the
\* thumbnail it generated in its place, while the other size directory still
\* holds its record from before the rewrite
StaleRecordNeverSurvivesWitness ==
    /\ created.called /\ created.before.older /\ created.generated
    /\ ~isNull(created.image)
    /\ source.mtime > 0
    /\ diskRecords[sizeDir(created.size)] = Record(source.mtime, created.image)
    /\ \E dir \in SizeDirs : diskRecords[dir].present /\ diskRecords[dir].mtime < source.mtime

-----------------------------------------------------------------------------
(* C31 *)

Abs(n) == IF n < 0 THEN -n ELSE n

\* C31: the thumbnail a create call generates from a picture of W x H pixels
\* has the picture's aspect ratio up to one pixel of rounding in either
\* dimension: w * H and h * W differ by at most max(W, H)
ThumbnailKeepsAspect ==
    ( /\ created.called /\ created.generated /\ ~isNull(created.image)
      /\ getMediaType(source.path) = "Image" ) =>
        Abs(created.image.w * created.content.h - created.image.h * created.content.w)
            <= Max(created.content.w, created.content.h)

-----------------------------------------------------------------------------
(* C32 *)

\* the scheduler just constructed, with room for PriorityTasks worker objects
InitPriority ==
    /\ ServicesInitWith(PriorityTasks)
    /\ source = Source(<<>>, Unreadable, 0)
    /\ diskRecords = [dir \in SizeDirs |-> NoRecord]
    /\ now = 0
    /\ ffmpegPath = Unsearched
    /\ created = NoCreate
    /\ keyed = NoKeyed

\* preload, lines 119-122, for a list of one path: loadBatch calls load with
\* LoadPriority::Low
preload(path, size) == load(path, size, "Low", TRUE)

NextPriority ==
    \/ \E p \in Paths, s \in Sizes : preload(p, s)
    \/ \E p \in Paths, s \in Sizes, pr \in Priorities : load(p, s, pr, TRUE)
    \/ \E id \in TaskIds : \E img \in create(tasks[id].filePath, tasks[id].size) : run(id, img)
    \/ slotWorkerFinished
    \/ \E p \in Paths : cancel(p)
    \/ \E n \in 1..MinThreads : setMaxThreads(n)

SpecPriority == InitPriority /\ [][NextPriority]_vars

\* the priority the queued worker id was submitted with
QueuedPriority(id) ==
    LET n == CHOOSE i \in 1..Len(poolQueue) : poolQueue[i].id = id IN poolQueue[n].priority

\* C32: a queued worker that is started has the highest priority in the queue
\* and is the oldest of that priority; the queue is kept in the order of
\* priority; and a started worker leaves the running state only by its own
\* run step, which appends its completion behind those of the workers that
\* finished before, whatever the priorities
HighestPriorityStartsFirst ==
    /\ [][ \A id \in TaskIds :
             (tasks[id].state = "queued" /\ tasks'[id].state = "running") =>
                 /\ \A j \in QueuedIds : QueuedPriority(j) <= QueuedPriority(id)
                 /\ \A n \in 1..Len(poolQueue) :
                        QueuedPriority(poolQueue[n].id) = QueuedPriority(id) =>
                            \E m \in 1..n : poolQueue[m].id = id ]_vars
    /\ [] (\A n \in 1..Len(poolQueue) : \A m \in 1..n :
               poolQueue[m].priority >= poolQueue[n].priority)
    /\ [][ \A id \in TaskIds :
             (tasks[id].state = "running" /\ tasks'[id].state # "running") =>
                 /\ lastOp'.op = "run" /\ lastOp'.task = id
                 /\ tasks'[id].state = "finished"
                 /\ events' = Append(events, id) ]_vars

\* a worker freed by a run step has started a worker that was submitted after
\* one of low priority, which is still in the queue
HighestPriorityStartsFirstWitness ==
    /\ lastOp.op = "run"
    /\ \E r \in InState("running") : \E n \in 1..Len(poolQueue) :
           /\ poolQueue[n].priority = queuePriority("Low")
           /\ poolQueue[n].id < r
           /\ tasks[r].state = "running"
           /\ Cardinality(Alive) = PriorityTasks

-----------------------------------------------------------------------------
(* C33 *)

\* the step is a load for a key that is in the pending set
LoadOfPendingKey == lastOp'.op = "load" /\ lastOp'.key \in pendingKeys

\* the step changes nothing of the scheduler and the cache and emits nothing
LoadIsNoOp ==
    /\ lastOp'.task = 0
    /\ lastOp'.emitted = <<>>
    /\ UNCHANGED <<pendingKeys, tasks, poolQueue, events, maxThreadCount, cacheVars>>

\* C33 as stated: every load for a key in the pending set submits no task,
\* emits no notification and leaves the pending set, the workers, the queue
\* and the cache as they were
PendingLoadIsNoOp ==
    [][ LoadOfPendingKey => LoadIsNoOp ]_vars

\* C33, amended: a load for a key in the pending set submits no task and
\* leaves the pending set, the workers and the order and priorities of the
\* queue as they were; it emits nothing and leaves the cache alone unless the
\* image is already in the image tier, in which case it is answered from there
PendingLoadSubmitsNothing ==
    [][ LoadOfPendingKey =>
            /\ lastOp'.task = 0
            /\ UNCHANGED <<pendingKeys, tasks, poolQueue, events, maxThreadCount>>
            /\ IF CachedForLoad(lastOp'.key)
               THEN /\ lastOp'.emitted # <<>>
                    /\ lastOp'.emitted[1] =
                           Signal("thumbnailLoaded", lastOp'.emitted[1].path,
                                  imageCache[lastOp'.key])
                    /\ UNCHANGED <<imageCache, maxImages, maxPixmaps>>
               ELSE LoadIsNoOp ]_vars

\* a load has just been made for a key whose worker waits in the queue with
\* low priority behind another one: nothing was submitted or emitted
PendingLoadSubmitsNothingWitness ==
    /\ lastOp.op = "load" /\ lastOp.task = 0 /\ lastOp.emitted = <<>>
    /\ lastOp.key \in pendingKeys
    /\ Len(poolQueue) = 2
    /\ tasks[poolQueue[2].id].cacheKey = lastOp.key
    /\ poolQueue[2].priority = queuePriority("Low")
    /\ poolQueue[1].priority = queuePriority("High")

-----------------------------------------------------------------------------
(* C34 *)

\* the tier went from (before, lruBefore) to (after, lruAfter) by storing v
\* under the resident key k: the same keys, the other values kept, k first in
\* the LRU list with the other keys in their order, and a retrieve gives v
ReplacedIn(before, lruBefore, after, lruAfter, k, v) ==
    /\ Keys(after) = Keys(before)
    /\ \A x \in Keys(before) \ {k} : after[x] = before[x]
    /\ Lookup(after, k) = v
    /\ lruAfter = <<k>> \o SelectSeq(lruBefore, LAMBDA x : x # k)

\* C34: a put for a key that is resident in its tier replaces the value,
\* moves the key to the front of the LRU list, keeps the resident keys and
\* evicts nothing, in the image tier and in the pixmap tier
PutReplacesResident ==
    [][ /\ (lastOp'.op = "putImage" /\ lastOp'.key \in Keys(imageCache)) =>
              /\ ReplacedIn(imageCache, imageLRU, imageCache', imageLRU',
                            lastOp'.key, lastOp'.value)
              /\ lastOp'.evicted = {}
        /\ (lastOp'.op = "putPixmap" /\ lastOp'.key \in Keys(pixmapCache)) =>
              /\ ReplacedIn(pixmapCache, pixmapLRU, pixmapCache', pixmapLRU',
                            lastOp'.key, lastOp'.value)
              /\ lastOp'.evicted = {} ]_vars

\* a put has replaced the value of a resident key in a tier that holds more
\* keys than its new capacity allows, because the eviction of the shrink has
\* not run yet; the key is first in the LRU list and the other key is kept
PutReplacesResidentWitness ==
    /\ lastOp.op = "putImage"
    /\ lastOp.evicted = {}
    /\ Cardinality(Keys(imageCache)) > maxImages
    /\ Cardinality(Keys(imageCache)) = 2
    /\ Head(imageLRU) = lastOp.key
    /\ imageCache[lastOp.key] = lastOp.value
    /\ \E x \in Keys(imageCache) \ {lastOp.key} : imageCache[x] # lastOp.value

-----------------------------------------------------------------------------
(* C35 *)

\* ImageThumbnailModel::refreshThumbnail, lines 755-769: the key is removed
\* from both tiers; the view's repaint brings the next load
refreshThumbnail(path, size) ==
    LET key == makeCacheKey(path, size)
        ri  == TierRemove(imageCache, imageLRU, key)
        rp  == TierRemove(pixmapCache, pixmapLRU, key)
    IN
    /\ SetImageTier(ri, imageTouch)
    /\ SetPixmapTier(rp, pixmapTouch)
    /\ invalidated' = invalidated \cup {key}
    /\ m_pendingThumbnails' = m_pendingThumbnails \ {path}
    /\ lastOp' = Op("refreshThumbnail", key, {}, 0, <<>>)
    /\ UNCHANGED <<creatorVars, keyed, thumbnailLoaded, struck, maxImages, maxPixmaps, cfgPc, attempted,
                   schedVars>>

NextRefresh ==
    \/ \E p \in Paths, s \in Sizes, pr \in Priorities : load(p, s, pr, TRUE)
    \/ \E id \in TaskIds : \E img \in create(tasks[id].filePath, tasks[id].size) : run(id, img)
    \/ slotWorkerFinished
    \/ \E p \in Paths, s \in Sizes : refreshThumbnail(p, s)

SpecRefresh == Init /\ [][NextRefresh]_vars

\* C35: refreshThumbnail removes exactly its key from both tiers and leaves
\* the other keys and their LRU order alone, and the first load made for the
\* key afterwards, when it finds the key not pending, submits a worker
InvalidationForcesRegeneration ==
    [][ /\ lastOp'.op = "refreshThumbnail" =>
              /\ Keys(imageCache') = Keys(imageCache) \ {lastOp'.key}
              /\ Keys(pixmapCache') = Keys(pixmapCache) \ {lastOp'.key}
              /\ \A x \in Keys(imageCache') : imageCache'[x] = imageCache[x]
              /\ \A x \in Keys(pixmapCache') : pixmapCache'[x] = pixmapCache[x]
              /\ imageLRU' = SelectSeq(imageLRU, LAMBDA x : x # lastOp'.key)
              /\ pixmapLRU' = SelectSeq(pixmapLRU, LAMBDA x : x # lastOp'.key)
        /\ ( /\ lastOp'.op = "load"
             /\ invalidated' # invalidated
             /\ lastOp'.key \notin pendingKeys ) =>
              /\ lastOp'.task # 0
              /\ tasks'[lastOp'.task].cacheKey = lastOp'.key
              /\ tasks'[lastOp'.task].state \in {"queued", "running"} ]_vars

-----------------------------------------------------------------------------
(* C36 *)

\* ImageThumbnailModel::data for the thumbnail roles, lines 96-130, on the
\* main thread: the item's own pixmap, the pixmap tier, the image tier, or a
\* load when the path is not in m_pendingThumbnails
data(path, size) ==
    LET key == makeCacheKey(path, size)
        rp  == TierPut(pixmapCache, pixmapLRU, maxPixmaps, key, fromImage(imageCache[key]))
    IN
    IF path \in thumbnailLoaded
    THEN /\ lastOp' = Op("data", key, {}, 0, <<>>)
         /\ UNCHANGED <<cacheVars, schedVars, creatorVars, reader, auxVars,
                        imageTouch, pixmapTouch, attempted, struck>>
    ELSE IF TierHas(pixmapCache, key)
    THEN /\ pixmapLRU' = TierRetrieve(pixmapCache, pixmapLRU, key)
         /\ pixmapTouch' = Touch(pixmapTouch, key)
         /\ thumbnailLoaded' = thumbnailLoaded \cup {path}
         /\ lastOp' = Op("data", key, {}, 0, <<>>)
         /\ UNCHANGED <<imageCache, imageLRU, maxImages, pixmapCache, maxPixmaps, cfgPc,
                        schedVars, creatorVars, reader, keyed, invalidated,
                        m_pendingThumbnails, imageTouch, attempted, struck>>
    ELSE IF CachedForLoad(key)
    THEN /\ imageLRU' = TierRetrieve(imageCache, imageLRU, key)
         /\ imageTouch' = Touch(imageTouch, key)
         /\ SetPixmapTier(rp, Touch(pixmapTouch, key))
         /\ thumbnailLoaded' = thumbnailLoaded \cup {path}
         /\ lastOp' = Op("data", key, (Keys(pixmapCache) \cup {key}) \ Keys(rp.cache), 0, <<>>)
         /\ UNCHANGED <<imageCache, maxImages, maxPixmaps, cfgPc, schedVars, creatorVars,
                        reader, keyed, invalidated, m_pendingThumbnails, attempted, struck>>
    ELSE IF path \notin m_pendingThumbnails
    THEN /\ m_pendingThumbnails' = m_pendingThumbnails \cup {path}
         /\ loadTask(path, size, "Normal", TRUE)
         /\ UNCHANGED thumbnailLoaded
    ELSE /\ lastOp' = Op("data", key, {}, 0, <<>>)
         /\ UNCHANGED <<cacheVars, schedVars, creatorVars, reader, auxVars,
                        imageTouch, pixmapTouch, attempted, struck>>

\* ImageGridView::preloadThumbnails, lines 421-445, for a range of one row:
\* loadBatch with the default priority for a path in neither tier
preloadThumbnails(path, size) ==
    LET key == makeCacheKey(path, size) IN
    IF ~TierHas(pixmapCache, key) /\ ~TierHas(imageCache, key)
    THEN /\ loadTask(path, size, "Normal", TRUE)
         /\ UNCHANGED consumerVars
    ELSE /\ lastOp' = Op("preloadThumbnails", key, {}, 0, <<>>)
         /\ UNCHANGED <<cacheVars, schedVars, creatorVars, reader, auxVars,
                        imageTouch, pixmapTouch, attempted, struck>>

NextConsumer ==
    \/ \E p \in Paths, s \in Sizes : data(p, s)
    \/ \E p \in Paths, s \in Sizes : preloadThumbnails(p, s)
    \/ \E id \in TaskIds : \E img \in create(tasks[id].filePath, tasks[id].size) : run(id, img)
    \/ slotWorkerFinished

SpecConsumer == Init /\ [][NextConsumer]_vars

\* the last step was the delivery of a completion that emitted the failure
\* notification
FailureJustNotified ==
    /\ lastOp.op = "slotWorkerFinished"
    /\ \E n \in 1..Len(lastOp.emitted) : lastOp.emitted[n].sig = "thumbnailFailed"

\* C36: the request the model's data() or the view's preload makes for a key
\* right after the failure notification for that key starts no worker
NoGenerationAfterFailure ==
    [][ (FailureJustNotified /\ lastOp'.op = "load" /\ lastOp'.key = lastOp.key) =>
            lastOp'.task = 0 ]_vars

-----------------------------------------------------------------------------
(* C37 *)

IsVideoPlaceholder(img) == img.kind = "videoPlaceholder"

\* a size directory holds a video placeholder that is not older than the source
FreshPlaceholderIn(dir) ==
    /\ diskRecords[dir].present
    /\ IsVideoPlaceholder(diskRecords[dir].image)
    /\ ~(diskRecords[dir].mtime < source.mtime)

\* C37: a create call that generates a video placeholder writes it to its
\* size directory, and while a size directory holds a placeholder that is not
\* older than the source, a create call for any size of that directory and
\* any behaviour of the decoder, a successful one included, returns the
\* record, starts no process and leaves the records as they are
PlaceholderAnswersLaterCalls ==
    /\ [][ (CreateStep /\ created'.generated /\ IsVideoPlaceholder(created'.image)) =>
               RecordLeft = Record(now, created'.image) ]_vars
    /\ [](\A dir \in SizeDirs : FreshPlaceholderIn(dir) =>
            \A t \in {u \in TargetSizes : sizeDir(u) = dir} :
            \A d \in DecodersFor(source.path, ffmpegPath) :
                LET out == createThumbnail(source, diskRecords, ffmpegPath, t, d, now) IN
                /\ out.image = diskRecords[dir].image
                /\ out.fromDisk /\ ~out.generated
                /\ out.runs = 0 /\ out.probes = 0
                /\ out.records = diskRecords)

\* a call for another size of the same directory has been answered with the
\* placeholder an earlier call wrote after its extraction runs failed, while
\* the decoder is installed and a run could succeed
PlaceholderAnswersLaterCallsWitness ==
    /\ created.called /\ created.fromDisk /\ created.runs = 0
    /\ IsVideoPlaceholder(created.image)
    /\ created.image.w # created.size
    /\ ffmpegPath = "ffmpeg"
    /\ Decoder("none", "zero", "none", "square") \in DecodersFor(source.path, ffmpegPath)
    /\ FreshPlaceholderIn(sizeDir(created.size))

-----------------------------------------------------------------------------
(* C38 *)

\* the paths getMediaType is called with
MediaPaths == CreatorPaths \ {<<>>}

\* a thread enters getMediaType(path), line 616
getMediaTypeEnter(t, path) ==
    /\ calls[t].pc = "idle"
    /\ calls' = [calls EXCEPT ![t] = [pc |-> "test", path |-> path, pos |-> 0, result |-> "none"]]
    /\ UNCHANGED <<imageExts, videoExts, audioExts, source, diskRecords, now, ffmpegPath,
                   created, phase, cacheVars, schedVars, histVars, reader, auxVars>>

\* if (imageExts.isEmpty()), line 622, with no lock held
testEmpty(t) ==
    /\ calls[t].pc = "test"
    /\ calls' = [calls EXCEPT ![t] =
                    IF imageExts = {} THEN [@ EXCEPT !.pc = "fill", !.pos = 1]
                    ELSE [@ EXCEPT !.pc = "lookup"]]
    /\ UNCHANGED <<imageExts, videoExts, audioExts, source, diskRecords, now, ffmpegPath,
                   created, phase, cacheVars, schedVars, histVars, reader, auxVars>>

\* one insert of the three loops, lines 623-631
insertExt(t) ==
    LET e == FillOrder[calls[t].pos] IN
    /\ calls[t].pc = "fill"
    /\ imageExts' = IF e.set = "image" THEN imageExts \cup {toLower(e.ext)} ELSE imageExts
    /\ videoExts' = IF e.set = "video" THEN videoExts \cup {toLower(e.ext)} ELSE videoExts
    /\ audioExts' = IF e.set = "audio" THEN audioExts \cup {toLower(e.ext)} ELSE audioExts
    /\ calls' = [calls EXCEPT ![t] =
                    IF calls[t].pos = Len(FillOrder) THEN [@ EXCEPT !.pc = "lookup"]
                    ELSE [@ EXCEPT !.pos = @ + 1]]
    /\ UNCHANGED <<source, diskRecords, now, ffmpegPath,
                   created, phase, cacheVars, schedVars, histVars, reader, auxVars>>

\* another thread is inside the loops that insert into the sets
FillRacing(t) == \E u \in MediaThreadIds \ {t} : calls[u].pc = "fill"

\* QSet::contains: what the set holds, and while another thread inserts
\* without synchronisation an entry of the set may also be missed
Contains(set, ext, racing) ==
    IF ext \notin set THEN {FALSE}
    ELSE IF racing THEN {TRUE, FALSE}
    ELSE {TRUE}

\* the three tests of lines 636-640
KindFound(inImage, inVideo, inAudio) ==
    IF inImage THEN "Image"
    ELSE IF inVideo THEN "Video"
    ELSE IF inAudio THEN "Audio"
    ELSE "Unknown"

\* lines 634-640: the suffix is looked up in the sets as they are now
lookupExt(t) ==
    LET ext == toLower(suffix(calls[t].path))
        racing == FillRacing(t)
    IN
    /\ calls[t].pc = "lookup"
    /\ \E i \in Contains(imageExts, ext, racing) :
       \E v \in Contains(videoExts, ext, racing) :
       \E a \in Contains(audioExts, ext, racing) :
           calls' = [calls EXCEPT ![t] = [@ EXCEPT !.pc = "done", !.result = KindFound(i, v, a)]]
    /\ UNCHANGED <<imageExts, videoExts, audioExts, source, diskRecords, now, ffmpegPath,
                   created, phase, cacheVars, schedVars, histVars, reader, auxVars>>

\* the caller has taken the result
getMediaTypeReturn(t) ==
    /\ calls[t].pc = "done"
    /\ calls' = [calls EXCEPT ![t] = NoCall]
    /\ UNCHANGED <<imageExts, videoExts, audioExts, source, diskRecords, now, ffmpegPath,
                   created, phase, cacheVars, schedVars, histVars, reader, auxVars>>

NextMediaType ==
    \/ \E t \in MediaThreadIds, p \in MediaPaths : getMediaTypeEnter(t, p)
    \/ \E t \in MediaThreadIds : testEmpty(t)
    \/ \E t \in MediaThreadIds : insertExt(t)
    \/ \E t \in MediaThreadIds : lookupExt(t)
    \/ \E t \in MediaThreadIds : getMediaTypeReturn(t)

SpecMediaType == Init /\ [][NextMediaType]_vars

\* C38: every call of getMediaType, on whatever thread and at whatever time,
\* returns the kind that the path's extension has
MediaTypeSameOnEveryThread ==
    \A t \in MediaThreadIds :
        calls[t].pc = "done" => calls[t].result = getMediaType(calls[t].path)

-----------------------------------------------------------------------------
(* C39 *)

\* a wait that returns at once
PoolDone_NoWait == TRUE

\* QThreadPool::waitForDone returns: no runnable is queued or running
PoolDone == InState("queued") = {} /\ InState("running") = {}

\* main.cpp line 149, ThumbnailLoadThread::cleanup: ~ThumbnailLoadThread runs
\* cancelAll and enters waitForDone (lines 72-76)
loadThreadCleanup ==
    /\ phase = "eventLoop"
    /\ cancelAllBody
    /\ phase' = "waitForDone"
    /\ UNCHANGED <<source, diskRecords, now, ffmpegPath, created, staticVars, auxVars>>

\* waitForDone returns and the scheduler is deleted; the finished() signals
\* still queued for it are discarded with it
waitForDone ==
    /\ phase = "waitForDone"
    /\ PoolDone
    /\ phase' = "schedulerDestroyed"
    /\ events' = <<>>
    /\ tasks' = [i \in TaskIds |-> IF tasks[i].state = "finished" THEN NoTask ELSE tasks[i]]
    /\ lastOp' = Op("waitForDone", NoKey, {}, 0, <<>>)
    /\ UNCHANGED <<source, diskRecords, now, ffmpegPath, created, staticVars, auxVars,
                   reader, cacheVars, pendingKeys, poolQueue, maxThreadCount,
                   imageTouch, pixmapTouch, attempted, struck>>

\* main.cpp line 150, ThumbnailCache::cleanup: ~ThumbnailCache runs clearAll
\* (thumbnailcache.cpp lines 26-40)
cacheCleanup ==
    /\ phase = "schedulerDestroyed"
    /\ phase' = "cacheDestroyed"
    /\ SetImageTier([cache |-> EmptyCache, lru |-> <<>>], imageTouch)
    /\ SetPixmapTier([cache |-> EmptyCache, lru |-> <<>>], pixmapTouch)
    /\ lastOp' = Op("cleanup", NoKey, Keys(imageCache) \cup Keys(pixmapCache), 0, <<>>)
    /\ UNCHANGED <<source, diskRecords, now, ffmpegPath, created, staticVars, auxVars,
                   maxImages, maxPixmaps, cfgPc, schedVars, attempted, struck>>

\* the event loop, the workers, and the teardown after the event loop
NextShutdown ==
    \/ phase = "eventLoop" /\ \E p \in Paths, s \in Sizes, pr \in Priorities : load(p, s, pr, TRUE)
    \/ \E id \in TaskIds : \E img \in create(tasks[id].filePath, tasks[id].size) : run(id, img)
    \/ phase = "eventLoop" /\ slotWorkerFinished
    \/ loadThreadCleanup
    \/ waitForDone
    \/ cacheCleanup

SpecShutdown == Init /\ [][NextShutdown]_vars

\* a worker ends its run: it has written its image, if any, to the image tier
WorkerEndsRun ==
    \E id \in TaskIds : tasks[id].state = "running" /\ tasks'[id].state = "finished"

\* C39: the teardown of the scheduler empties the pending set and the queue
\* as it starts; the scheduler is gone only when no worker is queued or
\* running; the cache is destroyed only after the scheduler; and no worker
\* ends a run, and so writes to the image tier, once the cache is destroyed
TeardownWaitsForWorkers ==
    /\ [][ (phase = "eventLoop" /\ phase' # "eventLoop") =>
               phase' = "waitForDone" /\ pendingKeys' = {} /\ poolQueue' = <<>> ]_vars
    /\ [](phase \in {"schedulerDestroyed", "cacheDestroyed"} =>
               InState("queued") = {} /\ InState("running") = {})
    /\ [][ (phase # "cacheDestroyed" /\ phase' = "cacheDestroyed") =>
               phase = "schedulerDestroyed" ]_vars
    /\ [][ WorkerEndsRun => phase \notin {"schedulerDestroyed", "cacheDestroyed"} ]_vars

\* the cache has been destroyed with thumbnails in it, after the scheduler,
\* and no worker object is left
TeardownWaitsForWorkersWitness ==
    /\ phase = "cacheDestroyed"
    /\ lastOp.op = "cleanup" /\ lastOp.evicted # {}
    /\ Keys(imageCache) = {}
    /\ \A id \in TaskIds : tasks[id] = NoTask

====
